---- MODULE Spec2Model ----
(***************************************************************************)
(* Model of the document assembly and math compilation engine of           *)
(* ai-word-editor: the LaTeX -> OMML recursive-descent compiler            *)
(* (src/src/latex_converter.py) and the two-phase renderer                 *)
(* (src/src/doc_generator.py).                                             *)
(*                                                                         *)
(* Part I models the math compiler.  Its input is the token list that      *)
(* tokenize() hands to the parser; an OMML element is a record             *)
(*   [tag, val, slots]                                                     *)
(* where val holds the attribute / text values of the element and slots    *)
(* its child containers in document order, each a sequence of elements:    *)
(*   r       val = <<text, sty>>     (sty "" when the run has no m:rPr)    *)
(*   f       slots = <<num, den>>                                          *)
(*   rad     slots = <<deg, e>>      (deg always empty, degHide = 1)       *)
(*   acc     val = <<chr>>           slots = <<e>>                         *)
(*   sSup    slots = <<e, sup>>      sSub   slots = <<e, sub>>             *)
(*   sSubSup slots = <<e, sub, sup>>                                       *)
(*   nary    val = <<chr>>           slots = <<sub, sup, e>>  (m:sub and   *)
(*           m:sup are only emitted when non-empty: an empty slot)         *)
(*   func    slots = <<fName, e>>                                          *)
(*   d       val = <<begChr, endChr>>  slots = <<e>>                       *)
(*   m       slots = <<rows>>, each row an element mr whose slots are the  *)
(*           cells (m:e) of the row                                        *)
(* The xml:space="preserve" attribute of m:t is not represented.           *)
(* A Python exception is the err flag of a parse result; it propagates to  *)
(* the first handler, which is the try/except of latex_to_omml.            *)
(***************************************************************************)
EXTENDS Integers, Sequences, FiniteSets, TLC

VARIABLES
    mcase,      \* the shape the input was drawn from (base, arguments, cells ...)
    latex,      \* the token list handed to the compiler (tokenize's output)
    omml,       \* what latex_to_omml gave for it
    mpc,        \* "input" before the call, "compiled" after it
    data,                   \* the validated document IR handed to create_document
    dpc,                    \* the position of create_document
    processed_bytes,        \* the package being built (None before doc.save)
    footnotes_to_inject,    \* placeholder -> note text, in insertion order
    endnotes_to_inject,
    bookmark_id_counter,    \* the module global _bookmark_id_counter
    log,                    \* history: the stages run so far, with input and output
    reapplied,              \* history: stage applications after the build
    threads,                \* the builds that are inside add_bookmark, by thread
    compiled,               \* history: the calls of latex_to_omml of the process
    temp_dirs,              \* the directories of the system's temporary directory
    agent                   \* the AgentState of the workflow and the node to run next

mathVars == <<mcase, latex, omml, mpc, compiled>>
docVars == <<data, dpc, processed_bytes, footnotes_to_inject, endnotes_to_inject,
             bookmark_id_counter, log, reapplied, threads, temp_dirs, agent>>
vars == <<mcase, latex, omml, mpc, compiled, data, dpc, processed_bytes, footnotes_to_inject,
          endnotes_to_inject, bookmark_id_counter, log, reapplied, threads, temp_dirs, agent>>

-----------------------------------------------------------------------------
(* Tables of latex_converter.py.  A mapped character is written by its     *)
(* code point.  SYMBOL_MAP lists the entries of the source table that the  *)
(* inputs below can contain.                                               *)

SYMBOL_MAP ==
    ("\\alpha" :> "U+03B1") @@ ("\\beta" :> "U+03B2") @@ ("\\pi" :> "U+03C0") @@
    ("\\omega" :> "U+03C9") @@ ("\\Omega" :> "U+03A9") @@
    ("\\pm" :> "U+00B1") @@ ("\\times" :> "U+00D7") @@ ("\\cdot" :> "U+22C5") @@
    ("\\in" :> "U+2208") @@ ("\\neq" :> "U+2260") @@ ("\\le" :> "U+2264") @@
    ("\\ge" :> "U+2265") @@ ("\\infty" :> "U+221E") @@ ("\\partial" :> "U+2202") @@
    ("\\to" :> "U+2192") @@
    ("\\{" :> "{") @@ ("\\}" :> "}") @@ ("\\ldots" :> "U+2026") @@
    ("\\ " :> " ") @@ ("\\quad" :> "    ") @@ ("\\," :> "U+2009")

\* token |-> token[1:] + " ", the name given to _create_function_omml
KNOWN_FUNCTIONS ==
    ("\\sin" :> "sin ") @@ ("\\cos" :> "cos ") @@ ("\\tan" :> "tan ") @@
    ("\\log" :> "log ") @@ ("\\ln" :> "ln ") @@ ("\\exp" :> "exp ") @@
    ("\\det" :> "det ") @@ ("\\min" :> "min ") @@ ("\\max" :> "max ") @@
    ("\\sup" :> "sup ") @@ ("\\inf" :> "inf ")

NARY_OPERATORS ==
    ("\\sum" :> "U+2211") @@ ("\\int" :> "U+222B") @@ ("\\prod" :> "U+220F") @@
    ("\\oint" :> "U+222E") @@ ("\\iint" :> "U+222C")

BOUNDARY_TOKENS ==
    {"+", "-", "*", "/", "=", "\\neq", "<", ">", "\\le", "\\ge", ",", "&", "\\\\", "\\right"}

\* \begin{name} tokens: re.match(r'\\begin\{([a-zA-Z]+\*?)\}', token).group(1)
BeginEnv ==
    ("\\begin{pmatrix}" :> "pmatrix") @@ ("\\begin{bmatrix}" :> "bmatrix") @@
    ("\\begin{vmatrix}" :> "vmatrix") @@ ("\\begin{matrix}" :> "matrix") @@
    ("\\begin{pmatrix*}" :> "pmatrix*") @@ ("\\begin{cases}" :> "cases")

\* f'\\end{{{env_name}}}'
EndToken(env_name) == "\\end{" \o env_name \o "}"

\* tokens for which token.startswith('\\operatorname') holds, with token.endswith('*')
OperatornamePrefixed ==
    ("\\operatorname" :> FALSE) @@ ("\\operatorname*" :> TRUE) @@
    ("\\operatornamewithlimits" :> FALSE)

\* the structural commands the if-chain of _parse_single_element names exactly
StructuralCommands ==
    {"\\lim", "\\frac", "\\sqrt", "\\hat", "\\vec", "\\dot", "\\mathbf", "\\mathcal",
     "\\text", "\\left", "\\\\"}

\* backslash commands that are in none of the tables
OtherCommands == {"\\foo", "\\bar", "\\right", "\\begin", "\\operatornamewithlimits"}

\* token.startswith('\\'), over the vocabulary of the model
StartsWithBackslash(token) ==
    \/ token \in DOMAIN SYMBOL_MAP
    \/ token \in DOMAIN KNOWN_FUNCTIONS
    \/ token \in DOMAIN NARY_OPERATORS
    \/ token \in DOMAIN BeginEnv
    \/ token \in {EndToken(BeginEnv[b]) : b \in DOMAIN BeginEnv}
    \/ token \in DOMAIN OperatornamePrefixed
    \/ token \in StructuralCommands
    \/ token \in OtherCommands

-----------------------------------------------------------------------------
(* Element builders.                                                       *)

El(tag, val, slots) == [tag |-> tag, val |-> val, slots |-> slots]

_create_run_omml(text, is_text) == El("r", <<text, IF is_text THEN "t" ELSE "">>, <<>>)
_create_fraction_omml(num, den) == El("f", <<>>, <<num, den>>)
_create_sqrt_omml(base) == El("rad", <<>>, <<<<>>, base>>)
_create_accent_omml(base, char) == El("acc", <<char>>, <<base>>)
_create_superscript_omml(base, sup) == El("sSup", <<>>, <<base, sup>>)
_create_subscript_omml(base, sub) == El("sSub", <<>>, <<base, sub>>)
_create_subsup_omml(base, sub, sup) == El("sSubSup", <<>>, <<base, sub, sup>>)
_create_nary_omml(op, sub, sup, base) == El("nary", <<op>>, <<sub, sup, base>>)
_create_delimiter_omml(open_c, close_c, content) == El("d", <<open_c, close_c>>, <<content>>)

_create_function_omml(name, args) ==
    LET wrapped == IF args # <<>> /\ args[1].tag # "d"
                   THEN <<_create_delimiter_omml("(", ")", args)>>
                   ELSE args
    IN  El("func", <<>>, <<<<_create_run_omml(name, FALSE)>>, wrapped>>)

_create_matrix_omml(rows) ==
    El("m", <<>>, <<[i \in 1..Len(rows) |-> El("mr", <<>>, rows[i])]>>)

RECURSIVE _apply_style(_, _)
_apply_style(element, style) ==
    IF element.tag = "r"
    THEN [element EXCEPT !.val[2] = style]
    ELSE [element EXCEPT !.slots =
            [i \in 1..Len(element.slots) |->
                [j \in 1..Len(element.slots[i]) |-> _apply_style(element.slots[i][j], style)]]]

_apply_style_recursively(elements, style) ==
    [i \in 1..Len(elements) |-> _apply_style(elements[i], style)]

RECURSIVE ConcatStrings(_)
ConcatStrings(ss) == IF ss = <<>> THEN "" ELSE Head(ss) \o ConcatStrings(Tail(ss))

RECURSIVE _extract_text(_)
_extract_text(elements) ==
    ConcatStrings(
        [i \in 1..Len(elements) |->
            IF elements[i].tag = "r"
            THEN elements[i].val[1]
            ELSE ConcatStrings([k \in 1..Len(elements[i].slots) |->
                                    _extract_text(elements[i].slots[k])])])

-----------------------------------------------------------------------------
(* ParserState: the token list and the cursor pos (1-based here).          *)

None == "<None>"

has_tokens(tokens, pos) == pos <= Len(tokens)
current_token(tokens, pos) == IF has_tokens(tokens, pos) THEN tokens[pos] ELSE None
\* an advance() that moves the cursor whether or not a token is left (line
\* 195 tests has_tokens first)
advance_unguarded(tokens, pos) == pos + 1

\* the cursor after advance(); advance() itself returns current_token
advance(tokens, pos) == IF has_tokens(tokens, pos) THEN pos + 1 ELSE pos

Ok(els, pos) == [els |-> els, pos |-> pos, err |-> FALSE]
Raise(pos) == [els |-> <<>>, pos |-> pos, err |-> TRUE]

\* A call of one parser function by another.  The parser functions are
\* mutually recursive; every such call goes through Call, which dispatches on
\* the name of the callee (x holds the callee's arguments after the state).
RECURSIVE Call(_, _, _, _)

rec_parse_tokens(tokens, pos, stop_tokens) == Call("_parse_tokens", tokens, pos, stop_tokens)
rec_parse_tokens_loop(tokens, pos, stop_tokens, elements) ==
    Call("_parse_tokens_loop", tokens, pos, <<stop_tokens, elements>>)
rec_parse_single_element(tokens, pos) == Call("_parse_single_element", tokens, pos, <<>>)
rec_parse_atomic_expression(tokens, pos) == Call("_parse_atomic_expression", tokens, pos, <<>>)
rec_parse_argument(tokens, pos) == Call("_parse_argument", tokens, pos, <<>>)
rec_handle_scripts(tokens, pos, base) == Call("_handle_scripts", tokens, pos, base)
rec_parse_matrix_environment(tokens, pos, env_name) ==
    Call("_parse_matrix_environment", tokens, pos, env_name)
rec_parse_matrix_loop(tokens, pos, stop_token, rows, current_row) ==
    Call("_parse_matrix_loop", tokens, pos, <<stop_token, rows, current_row>>)


_parse_atomic_expression(tokens, pos) ==
    IF current_token(tokens, pos) = "{"
    THEN rec_parse_tokens(tokens, advance(tokens, pos), {"}"})
    ELSE rec_parse_single_element(tokens, pos)

_parse_argument(tokens, pos) ==
    IF current_token(tokens, pos) = "{"
    THEN rec_parse_tokens(tokens, advance(tokens, pos), {"}"})
    ELSE IF current_token(tokens, pos) = "("
    THEN LET content == rec_parse_tokens(tokens, advance(tokens, pos), {")"})
         IN  IF content.err THEN content
             ELSE Ok(<<_create_delimiter_omml("(", ")", content.els)>>, content.pos)
    ELSE rec_parse_atomic_expression(tokens, pos)

_parse_matrix_environment(tokens, pos, env_name) ==
    rec_parse_matrix_loop(tokens, pos, EndToken(env_name), <<>>, <<>>)

\* the while loop of _parse_matrix_environment and the two statements after it;
\* els is the list of rows
_parse_matrix_loop(tokens, pos, stop_token, rows, current_row) ==
    IF has_tokens(tokens, pos) /\ current_token(tokens, pos) # stop_token
    THEN LET cell == rec_parse_tokens(tokens, pos, {"&", "\\\\", stop_token})
             row  == Append(current_row, cell.els)
             token == current_token(tokens, cell.pos)
         IN  IF cell.err THEN cell
             ELSE IF token = "&"
             THEN rec_parse_matrix_loop(tokens, advance(tokens, cell.pos), stop_token, rows, row)
             ELSE IF token = "\\\\"
             THEN rec_parse_matrix_loop(tokens, advance(tokens, cell.pos), stop_token,
                                     Append(rows, row), <<>>)
             ELSE IF token = stop_token
             THEN Ok(Append(rows, row), advance(tokens, cell.pos))
             ELSE rec_parse_matrix_loop(tokens, cell.pos, stop_token, rows, row)
    ELSE Ok(IF current_row # <<>> THEN Append(rows, current_row) ELSE rows,
            IF current_token(tokens, pos) = stop_token THEN advance(tokens, pos) ELSE pos)

\* lines 260-263: which complementary script, if any, follows the first one
\* (sub1 / sup1 are <<>> when None or empty: both are falsy)
SecondScriptOnlySub(token, sub1, sup1) ==
    IF token = "_" /\ sup1 # <<>> THEN "_" ELSE None

SecondScript(token, sub1, sup1) ==
    IF token = "_" /\ sup1 # <<>> THEN "_"
    ELSE IF token = "^" /\ sub1 # <<>> THEN "^"
    ELSE None

\* pos is on the script operator; sub_arg / sup_arg are None until parsed
_handle_scripts(tokens, pos, base) ==
    LET op1 == current_token(tokens, pos)
        a1  == rec_parse_argument(tokens, advance(tokens, pos))
        sub1 == IF op1 = "_" THEN a1.els ELSE <<>>
        sup1 == IF op1 = "_" THEN <<>> ELSE a1.els
        second == SecondScript(current_token(tokens, a1.pos), sub1, sup1)
        a2  == IF second = None THEN Ok(<<>>, a1.pos)
               ELSE rec_parse_argument(tokens, advance(tokens, a1.pos))
        sub_arg == IF second = "_" THEN a2.els ELSE sub1
        sup_arg == IF second = "^" THEN a2.els ELSE sup1
        sup_is_None == op1 = "_" /\ second # "^"
    IN  IF a1.err THEN a1
        ELSE IF a2.err THEN a2
        ELSE IF sub_arg # <<>> /\ sup_arg # <<>>
        THEN Ok(<<_create_subsup_omml(base, sub_arg, sup_arg)>>, a2.pos)
        ELSE IF sub_arg # <<>>
        THEN Ok(<<_create_subscript_omml(base, sub_arg)>>, a2.pos)
        ELSE IF sup_is_None
        THEN Raise(a2.pos)      \* for el in None: TypeError
        ELSE Ok(<<_create_superscript_omml(base, sup_arg)>>, a2.pos)

\* the result of a one-argument command: a is the parsed argument, built what
\* the command's builder makes of a.els
WithArgument(a, built) == IF a.err THEN a ELSE Ok(built, a.pos)

\* the fall-through of the if-chain: print the warning, return the run
UnknownCommand(tokens, pos, token) == Ok(<<_create_run_omml(token, FALSE)>>, pos + 1)

\* the branches of _parse_single_element for a token that starts with '\'
ParseCommand(tokens, pos, token) ==
    LET next == pos + 1
        arg1 == rec_parse_argument(tokens, next)
    IN
    IF token \in DOMAIN SYMBOL_MAP
    THEN Ok(<<_create_run_omml(SYMBOL_MAP[token], FALSE)>>, next)
    ELSE IF token \in DOMAIN KNOWN_FUNCTIONS
    THEN LET arg == rec_parse_argument(tokens, next)
             func_el == _create_function_omml(KNOWN_FUNCTIONS[token], arg.els)
         IN  IF arg.err THEN arg
             ELSE IF current_token(tokens, arg.pos) \in {"^", "_"}
             THEN rec_handle_scripts(tokens, arg.pos, <<func_el>>)
             ELSE Ok(<<func_el>>, arg.pos)
    ELSE IF token \in DOMAIN OperatornamePrefixed
    THEN LET name == rec_parse_argument(tokens, next)
             func_name_text == _extract_text(name.els)
             arg == rec_parse_argument(tokens, name.pos)
         IN  IF name.err THEN name
             ELSE IF OperatornamePrefixed[token]
             THEN Ok(<<_create_run_omml(func_name_text, FALSE)>>, name.pos)
             ELSE IF arg.err THEN arg
             ELSE Ok(<<_create_function_omml(func_name_text \o " ", arg.els)>>, arg.pos)
    ELSE IF token = "\\lim"
    THEN IF current_token(tokens, next) = "_"
         THEN rec_handle_scripts(tokens, next, <<_create_run_omml("lim", FALSE)>>)
         ELSE Ok(<<_create_run_omml("lim", FALSE)>>, next)
    ELSE IF token = "\\frac"
    THEN LET num == rec_parse_argument(tokens, next)
             den == rec_parse_argument(tokens, num.pos)
         IN  IF num.err THEN num
             ELSE IF den.err THEN den
             ELSE Ok(<<_create_fraction_omml(num.els, den.els)>>, den.pos)
    ELSE IF token = "\\sqrt"
    THEN WithArgument(arg1, <<_create_sqrt_omml(arg1.els)>>)
    ELSE IF token = "\\hat"
    THEN WithArgument(arg1, <<_create_accent_omml(arg1.els, "^")>>)
    ELSE IF token = "\\vec"
    THEN WithArgument(arg1, <<_create_accent_omml(arg1.els, "U+2192")>>)
    ELSE IF token = "\\dot"
    THEN WithArgument(arg1, <<_create_accent_omml(arg1.els, "U+02D9")>>)
    ELSE IF token = "\\mathbf"
    THEN WithArgument(arg1, _apply_style_recursively(arg1.els, "b"))
    ELSE IF token = "\\mathcal"
    THEN rec_parse_argument(tokens, next)
    ELSE IF token = "\\text" /\ current_token(tokens, next) = "{"
    THEN \* state.advance(); raw_text = state.advance(); state.advance()
         LET raw_text == current_token(tokens, next + 1)
             after == advance(tokens, advance(tokens, next + 1))
         IN  IF raw_text = None THEN Raise(after)     \* None.startswith
             ELSE Ok(<<_create_run_omml(raw_text, TRUE)>>, after)
    ELSE IF token \in DOMAIN NARY_OPERATORS
    THEN LET sub == IF current_token(tokens, next) = "_"
                    THEN rec_parse_argument(tokens, advance(tokens, next))
                    ELSE Ok(<<>>, next)
             sup == IF current_token(tokens, sub.pos) = "^"
                    THEN rec_parse_argument(tokens, advance(tokens, sub.pos))
                    ELSE Ok(<<>>, sub.pos)
             base == rec_parse_tokens(tokens, sup.pos, BOUNDARY_TOKENS)
         IN  IF sub.err THEN sub
             ELSE IF sup.err THEN sup
             ELSE IF base.err THEN base
             ELSE Ok(<<_create_nary_omml(NARY_OPERATORS[token], sub.els, sup.els, base.els)>>,
                     base.pos)
    ELSE IF token = "\\left"
    THEN LET open_c == current_token(tokens, next)
             content == rec_parse_tokens(tokens, advance(tokens, next), {"\\right"})
             at_close == IF current_token(tokens, content.pos) = "\\right"
                         THEN advance(tokens, content.pos) ELSE content.pos
             close_c == current_token(tokens, at_close)
         IN  IF content.err THEN content
             ELSE IF open_c = None \/ close_c = None
             THEN Raise(at_close)                     \* set(val, None): TypeError
             ELSE Ok(<<_create_delimiter_omml(open_c, close_c, content.els)>>,
                     advance(tokens, at_close))
    ELSE IF token \in DOMAIN BeginEnv
    THEN LET name == BeginEnv[token]
             rows == rec_parse_matrix_environment(tokens, next, name)
             mat_el == _create_matrix_omml(rows.els)
         IN  IF rows.err THEN rows
             ELSE IF name \in {"pmatrix", "pmatrix*"}
             THEN Ok(<<_create_delimiter_omml("(", ")", <<mat_el>>)>>, rows.pos)
             ELSE IF name \in {"bmatrix", "bmatrix*"}
             THEN Ok(<<_create_delimiter_omml("[", "]", <<mat_el>>)>>, rows.pos)
             ELSE IF name \in {"vmatrix", "vmatrix*"}
             THEN Ok(<<_create_delimiter_omml("|", "|", <<mat_el>>)>>, rows.pos)
             ELSE Ok(<<mat_el>>, rows.pos)
    ELSE IF token = "\\\\"
    THEN Ok(<<_create_run_omml(" ", FALSE)>>, next)
    ELSE UnknownCommand(tokens, pos, token)

_parse_single_element(tokens, pos) ==
    LET token == current_token(tokens, pos) IN
    IF token = None THEN Raise(pos)                   \* None.startswith
    ELSE IF StartsWithBackslash(token) THEN ParseCommand(tokens, pos, token)
    ELSE IF token = "{" THEN rec_parse_tokens(tokens, pos + 1, {"}"})
    ELSE Ok(<<_create_run_omml(token, FALSE)>>, pos + 1)

\* the while loop of _parse_tokens, elements being the list built so far
_parse_tokens_loop(tokens, pos, stop_tokens, elements) ==
    IF ~has_tokens(tokens, pos) THEN Ok(elements, pos)
    ELSE LET token == current_token(tokens, pos) IN
         IF token \in stop_tokens
         THEN Ok(elements, IF token \in {"}", ")", "]"} THEN advance(tokens, pos) ELSE pos)
         ELSE LET base_elements == rec_parse_single_element(tokens, pos)
                  scripted == rec_handle_scripts(tokens, base_elements.pos, base_elements.els)
              IN  IF base_elements.err THEN base_elements
                  ELSE IF current_token(tokens, base_elements.pos) \in {"^", "_"}
                  THEN IF scripted.err THEN scripted
                       ELSE rec_parse_tokens_loop(tokens, scripted.pos, stop_tokens,
                                               elements \o scripted.els)
                  ELSE rec_parse_tokens_loop(tokens, base_elements.pos, stop_tokens,
                                          elements \o base_elements.els)

_parse_tokens(tokens, pos, stop_tokens) == _parse_tokens_loop(tokens, pos, stop_tokens, <<>>)

Call(fn, tokens, pos, x) ==
    CASE fn = "_parse_tokens" -> _parse_tokens(tokens, pos, x)
      [] fn = "_parse_tokens_loop" -> _parse_tokens_loop(tokens, pos, x[1], x[2])
      [] fn = "_parse_single_element" -> _parse_single_element(tokens, pos)
      [] fn = "_parse_atomic_expression" -> _parse_atomic_expression(tokens, pos)
      [] fn = "_parse_argument" -> _parse_argument(tokens, pos)
      [] fn = "_handle_scripts" -> _handle_scripts(tokens, pos, x)
      [] fn = "_parse_matrix_environment" -> _parse_matrix_environment(tokens, pos, x)
      [] fn = "_parse_matrix_loop" -> _parse_matrix_loop(tokens, pos, x[1], x[2], x[3])

\* The outcome of a call of latex_to_omml: an m:oMathPara element, None,
\* or an exception that leaves the function.
NoneResult == [kind |-> "None", jc |-> "", oMath |-> <<>>]
Raised == [kind |-> "raised", jc |-> "", oMath |-> <<>>]
OMathPara(alignment, els) == [kind |-> "oMathPara", jc |-> alignment, oMath |-> els]

\* latex_to_omml without its except clause
latex_to_omml_uncaught(tokens, alignment) ==
    IF tokens = <<>> THEN NoneResult
    ELSE LET result == _parse_tokens(tokens, 1, {})
         IN  IF result.err THEN Raised
             ELSE OMathPara(alignment, result.els)

latex_to_omml(tokens, alignment) ==
    IF tokens = <<>> THEN NoneResult
    ELSE LET result == _parse_tokens(tokens, 1, {})
         IN  IF result.err THEN NoneResult        \* except Exception: ... return None
             ELSE OMathPara(alignment, result.els)

\* one iteration of the loop of _parse_tokens entered with the cursor at pos
\* (a token is left and it is no stop token): the result of its body
TokensIteration(tokens, pos) ==
    LET base_elements == rec_parse_single_element(tokens, pos)
    IN  IF base_elements.err THEN base_elements
        ELSE IF current_token(tokens, base_elements.pos) \in {"^", "_"}
        THEN rec_handle_scripts(tokens, base_elements.pos, base_elements.els)
        ELSE base_elements

-----------------------------------------------------------------------------
(* Part II: the two-phase renderer, doc_generator.py.                      *)
(*                                                                         *)
(* The package (the bytes of the .docx) is a record of the parts the       *)
(* pipeline reads or writes:                                               *)
(*   document   the paragraphs of word/document.xml, each the sequence of  *)
(*              the child nodes of its w:p                                 *)
(*   names      the names of the zip entries that are present              *)
(*   zip        whether the bytes are a zip archive at all                 *)
(*   malformed  the names of the entries that are not well-formed XML      *)
(*   parts      the content of the entries no stage reads (template parts, *)
(*              header and footer parts), by name                          *)
(*   footnotes, endnotes   the notes of the part (<<>> while absent)       *)
(*   rels       the children of the root of word/_rels/document.xml.rels:  *)
(*              [ns, Id, Target], ns the XML namespace of the element and  *)
(*              Id the number n of "rId<n>"                                *)
(*   overrides  the Override part names of [Content_Types].xml             *)
(*   settings, numbering, styles   the parts the numbering stages edit     *)
(* A node of a paragraph is a record with the fields of Node below; a run  *)
(* whose w:t holds elements instead of text has them in inner.             *)

Node(tag) ==
    [tag |-> tag, t |-> "", vertAlign |-> "", color |-> "", ref |-> <<>>,
     fld |-> "", inner |-> <<>>, math |-> <<>>, id |-> -1, name |-> ""]

\* paragraph.add_run(text)
TextRun(text) == [Node("r") EXCEPT !.t = text]

\* the n-th call of uuid.uuid4().hex: a value no other call returns
uuid4(n) == ToString(n)

\* tokenize, over the formula texts of the model
FormulaTokens ==
    ("x ^ 2" :> <<"x", "^", "2">>) @@ ("\\frac a b" :> <<"\\frac", "a", "b">>) @@
    ("x ^" :> <<"x", "^">>) @@ ("\\frac a" :> <<"\\frac", "a">>) @@ ("" :> <<>>)

\* str.strip(), over the bookmark names of the model
strip ==
    ("a" :> "a") @@ (" a" :> "a") @@ ("a " :> "a") @@ ("b" :> "b") @@ ("c" :> "c")

\* reference_format.split('#'), over the templates of the model
split_hash ==
    ("[#]" :> <<"[", "]">>) @@ ("#" :> <<"", "">>) @@ ("(#" :> <<"(", "">>) @@
    ("*" :> <<"*">>)

Max(S) == CHOOSE x \in S : \A y \in S : y <= x

\* the run items of a paragraph: element.get('content'), <<>> when the key
\* is absent
ContentOf(element) == element.content

\* lines 1112-1114: element.get('text', '') or "".join(text runs)
FlattenedText(element) ==
    IF element.text # "" THEN element.text
    ELSE LET content == ContentOf(element)
             text_runs == SelectSeq(content, LAMBDA r : r.type = "text")
         IN  ConcatStrings([i \in 1..Len(text_runs) |-> text_runs[i].text])

\* lines 1104-1116: the pre-scan of one section; a later paragraph with the
\* same bookmark id overwrites the entry of an earlier one
bookmark_map(elements) ==
    LET carriers == {i \in 1..Len(elements) :
                        /\ elements[i].type = "paragraph"
                        /\ elements[i].bookmark_id # None
                        /\ elements[i].bookmark_id # ""}
        ids == {elements[i].bookmark_id : i \in carriers}
    IN  [id \in ids |->
            FlattenedText(elements[Max({i \in carriers : elements[i].bookmark_id = id})])]

\* line 1173: bookmark_map.get(clean_target, <not found text>); the message of
\* the source is written in English here
NotFoundText(clean_target) == "[REF '" \o clean_target \o "' not found]"
DisplayText(bmap, clean_target) ==
    IF clean_target \in DOMAIN bmap THEN bmap[clean_target] ELSE NotFoundText(clean_target)

\* add_cross_reference_field: the five runs of a REF field
add_cross_reference_field(bookmark_name, display_text) ==
    << [Node("r") EXCEPT !.fld = "begin"],
       [Node("r") EXCEPT !.fld = "instrText", !.t = " REF " \o bookmark_name \o " \\h "],
       [Node("r") EXCEPT !.fld = "separate"],
       TextRun(display_text),
       [Node("r") EXCEPT !.fld = "end"] >>

\* lines 1148-1157: a formula run is compiled while the paragraph is built;
\* a run without markup is passed over (line 1150)
FormulaNodes(latex_text) ==
    IF latex_text = "" THEN <<>>
    ELSE LET omml_element == latex_to_omml(FormulaTokens[latex_text], "center")
         IN  IF omml_element.kind = "oMathPara"
             THEN <<[Node("oMath") EXCEPT !.math = omml_element.oMath]>>
             ELSE <<[TextRun("[formula failed: " \o latex_text \o "]") EXCEPT !.color = "FF0000"]>>

FootnotePlaceholder(n) == "__FOOTNOTE_" \o uuid4(n) \o "__"
EndnotePlaceholder(n) == "__ENDNOTE_" \o uuid4(n) \o "__"

\* The state of the element loop of create_document: the paragraphs built,
\* the two pending dictionaries (insertion-ordered lists of <<key, value>>),
\* the calls of uuid4 made and the bookmark counter.
RenderState(body, fn, en, uuids, bm) ==
    [body |-> body, fn |-> fn, en |-> en, uuids |-> uuids, bm |-> bm, hf |-> <<>>]

\* lines 1143-1175: one run item; nodes is the paragraph built so far
RenderRun(run_item, nodes, st, bmap) ==
    IF run_item.type = "text"
    THEN <<Append(nodes, TextRun(run_item.text)), st>>
    ELSE IF run_item.type = "formula"
    THEN <<nodes \o FormulaNodes(run_item.text), st>>
    ELSE IF run_item.type = "footnote"
    THEN LET placeholder == FootnotePlaceholder(st.uuids + 1)
         IN  <<Append(nodes, TextRun(placeholder)),
               [st EXCEPT !.fn = Append(@, <<placeholder, run_item.text>>),
                          !.uuids = @ + 1]>>
    ELSE IF run_item.type = "endnote"
    THEN LET placeholder == EndnotePlaceholder(st.uuids + 1)
         IN  <<Append(nodes, TextRun(placeholder)),
               [st EXCEPT !.en = Append(@, <<placeholder, run_item.text>>),
                          !.uuids = @ + 1]>>
    ELSE IF run_item.type = "cross_reference" /\ run_item.target_bookmark # ""
    THEN LET clean_target == strip[run_item.target_bookmark]
         IN  <<nodes \o add_cross_reference_field(clean_target,
                                                  DisplayText(bmap, clean_target)), st>>
    ELSE <<nodes, st>>

\* r is <<nodes, st>>, the paragraph and the loop state so far
RECURSIVE RenderRuns(_, _, _)
RenderRuns(content, r, bmap) ==
    IF content = <<>> THEN r
    ELSE RenderRuns(Tail(content), RenderRun(Head(content), r[1], r[2], bmap), bmap)

\* add_bookmark: bookmarkStart before the first run, bookmarkEnd after the last
add_bookmark(nodes, bookmark_name, counter) ==
    LET runs == {i \in 1..Len(nodes) : nodes[i].tag = "r"}
        first == CHOOSE i \in runs : \A j \in runs : i <= j
        last == Max(runs)
        bookmark_start == [Node("bookmarkStart") EXCEPT !.id = counter, !.name = bookmark_name]
        bookmark_end == [Node("bookmarkEnd") EXCEPT !.id = counter]
    IN  SubSeq(nodes, 1, first - 1) \o <<bookmark_start>> \o SubSeq(nodes, first, last)
        \o <<bookmark_end>> \o SubSeq(nodes, last + 1, Len(nodes))

\* lines 1141-1178: the runs of one paragraph element, as <<nodes, st>>
RenderContent(element, st, bmap) ==
    IF ContentOf(element) # <<>> THEN RenderRuns(ContentOf(element), <<<<>>, st>>, bmap)
    ELSE IF element.text # "" THEN <<<<TextRun(element.text)>>, st>>
    ELSE <<<<>>, st>>

\* paragraph.runs: the w:r children of the paragraph
HasRuns(nodes) == \E i \in 1..Len(nodes) : nodes[i].tag = "r"

\* apply_paragraph_properties, lines 138-139: a paragraph without a run gets
\* an empty one (the formats of the properties are not modelled)
apply_paragraph_properties(nodes) ==
    IF ~HasRuns(nodes) THEN Append(nodes, TextRun("")) ELSE nodes

\* lines 1180-1186: the properties are applied, and the paragraph gets its
\* bookmark if it has a bookmark id and at least one run
AddParagraph(element, nodes, st) ==
    LET p == apply_paragraph_properties(nodes) IN
    IF /\ element.bookmark_id # None
       /\ element.bookmark_id # ""
       /\ HasRuns(p)
    THEN [st EXCEPT !.body = Append(@, add_bookmark(p, strip[element.bookmark_id], st.bm)),
                    !.bm = @ + 1]
    ELSE [st EXCEPT !.body = Append(@, p)]

\* what AddParagraph makes of r = <<nodes, st>>
AddRendered(element, r) == AddParagraph(element, r[1], r[2])

\* lines 1127-1186: one paragraph element
RenderParagraph(element, st, bmap) == AddRendered(element, RenderContent(element, st, bmap))

\* The elements of the other kinds.  Their records have the fields of a
\* paragraph: text is properties.text (header, footer, formula), the path
\* (image) or the title (toc); content holds the items of a list, or the rows
\* of a table of one column, as items whose text is the string.

\* add_page_number: the run of a PAGE field
PageNumberRun == [Node("r") EXCEPT !.fld = "PAGE"]

\* text.split('{PAGE_NUM}'), over the header and footer texts of the model
split_page_num == ("H" :> <<"H">>) @@ ("F {PAGE_NUM}" :> <<"F ", "">>) @@ ("" :> <<"">>)

\* lines 343-357 / 372-386: the runs of the header or footer paragraph
HeaderFooterRuns(text) ==
    IF Len(split_page_num[text]) > 1
    THEN (IF split_page_num[text][1] # "" THEN <<TextRun(split_page_num[text][1])>> ELSE <<>>)
         \o <<PageNumberRun>>
         \o (IF split_page_num[text][2] # "" THEN <<TextRun(split_page_num[text][2])>> ELSE <<>>)
    ELSE <<TextRun(text)>>

\* add_header_from_data / add_footer_from_data: the first paragraph of the
\* header (footer) is cleared and written.  A section that has no header of
\* its own is linked to the previous one, so every section of a build writes
\* the header (footer) of the first section; hf lists the parts the element
\* loop adds to the package in the order it adds them: the headers and
\* footers written, one entry per kind, and the pictures
add_header_from_data(element, kind, st) ==
    IF \E i \in 1..Len(st.hf) : st.hf[i].kind = kind
    THEN [st EXCEPT !.hf = [i \in 1..Len(@) |->
                               IF @[i].kind = kind
                               THEN [@[i] EXCEPT !.nodes = HeaderFooterRuns(element.text)]
                               ELSE @[i]]]
    ELSE [st EXCEPT !.hf = Append(@, [kind |-> kind, part |-> kind \o "1.xml",
                                      nodes |-> HeaderFooterRuns(element.text)])]

\* add_table_from_data: no table when there is no data; else a w:tbl in the
\* body with one cell per row
add_table_from_data(element, st) ==
    IF element.content = <<>> THEN st
    ELSE [st EXCEPT !.body =
            Append(@, <<[Node("tbl") EXCEPT !.inner =
                            [i \in 1..Len(element.content) |->
                                [Node("tc") EXCEPT !.t = element.content[i].text]]]>>)]

\* add_list_from_data: one paragraph of style List Bullet per item
add_list_from_data(element, st) ==
    [st EXCEPT !.body = @ \o [i \in 1..Len(element.content) |->
                                <<[Node("pPr") EXCEPT !.name = "List Bullet"],
                                  TextRun(element.content[i].text)>>]]

\* the image files that exist when the document is built; the two files
\* differ in content
ExistingFiles == {"ok.png", "b.png"}

\* add_image_from_data: nothing when the path is missing; doc.add_picture
\* adds a paragraph with a run and then reads the file, so a file that cannot
\* be read leaves the paragraph with its empty run (the exception is caught,
\* lines 303-308).  A file that is read becomes a part of the package, named
\* media/image<n>.png with n the next number not taken, and the run gets the
\* drawing that refers to it; a picture whose content the package already
\* holds (python-docx looks it up by its SHA1) shares that part and its
\* relationship
add_image_from_data(element, st) ==
    IF element.text = "" THEN st
    ELSE IF element.text \notin ExistingFiles
    THEN [st EXCEPT !.body = Append(@, <<TextRun("")>>)]
    ELSE LET drawing == [Node("drawing") EXCEPT !.t = element.text]
             images == {i \in 1..Len(st.hf) : st.hf[i].kind = "image"}
             held == \E i \in images : st.hf[i].nodes[1].t = element.text
         IN  IF held THEN [st EXCEPT !.body = Append(@, <<drawing>>)]
             ELSE [st EXCEPT
                      !.body = Append(@, <<drawing>>),
                      !.hf = Append(@, [kind |-> "image",
                                        part |-> "media/image"
                                                    \o ToString(Cardinality(images) + 1)
                                                    \o ".png",
                                        nodes |-> <<[Node("image") EXCEPT
                                                        !.t = element.text]>>])]

\* add_page_break_from_data: doc.add_page_break adds a paragraph with the break
add_page_break_from_data(st) ==
    [st EXCEPT !.body = Append(@, <<[Node("br") EXCEPT !.t = "page"]>>)]

\* doc.paragraphs: the positions of the w:p children of the body
ParagraphsOf(body) == {i \in 1..Len(body) : body[i] = <<>> \/ body[i][1].tag # "tbl"}

\* add_column_break_from_data: the break goes into the last paragraph of the
\* document, or into a new one when there is none
add_column_break_from_data(st) ==
    IF ParagraphsOf(st.body) = {}
    THEN [st EXCEPT !.body = Append(@, <<[Node("br") EXCEPT !.t = "column"]>>)]
    ELSE [st EXCEPT !.body[Max(ParagraphsOf(st.body))] =
                        Append(@, [Node("br") EXCEPT !.t = "column"])]

\* add_toc_from_data: the title as a Heading 1 paragraph, then a paragraph
\* with the TOC field
add_toc_from_data(element, st) ==
    [st EXCEPT !.body =
        @ \o (IF element.text # ""
              THEN <<<<[Node("pPr") EXCEPT !.name = "Heading 1"], TextRun(element.text)>>>>
              ELSE <<>>)
          \o << <<[Node("r") EXCEPT !.fld = "TOC"]>> >>]

\* lines 1121-1199: one element; a type without a branch adds nothing
RenderElement(element, st, bmap) ==
    CASE element.type = "header" -> add_header_from_data(element, "header", st)
      [] element.type = "footer" -> add_header_from_data(element, "footer", st)
      [] element.type = "paragraph" -> RenderParagraph(element, st, bmap)
      [] element.type = "table" -> add_table_from_data(element, st)
      [] element.type = "list" -> add_list_from_data(element, st)
      [] element.type = "image" -> add_image_from_data(element, st)
      [] element.type = "page_break" -> add_page_break_from_data(st)
      [] element.type = "column_break" -> add_column_break_from_data(st)
      [] element.type = "toc" -> add_toc_from_data(element, st)
      [] OTHER -> st

\* lines 1120-1199: the elements of one section, in IR order
RECURSIVE RenderElements(_, _, _)
RenderElements(elements, st, bmap) ==
    IF elements = <<>> THEN st
    ELSE RenderElements(Tail(elements), RenderElement(Head(elements), st, bmap), bmap)

\* a build that scans the bookmarks of the whole document once (line 1104
\* starts an empty map for every section)
RECURSIVE RenderSections_document_map(_, _, _)
RenderSections_document_map(sections_data, i, st) ==
    IF i > Len(sections_data) THEN st
    ELSE RenderSections_document_map(sections_data, i + 1,
            RenderElements(sections_data[i].elements,
                           IF i = 1 THEN st
                           ELSE [st EXCEPT !.body = Append(@, <<Node("sectPr")>>)],
                           LET maps == [k \in 1..Len(sections_data) |->
                                           bookmark_map(sections_data[k].elements)]
                           IN  [id \in UNION {DOMAIN maps[k] : k \in 1..Len(sections_data)} |->
                                   maps[CHOOSE k \in 1..Len(sections_data) :
                                            id \in DOMAIN maps[k]][id]]))

\* lines 1098-1101: doc.add_section ends the previous section with a paragraph
\* that carries its properties
RECURSIVE RenderSections(_, _, _)
RenderSections(sections_data, i, st) ==
    IF i > Len(sections_data) THEN st
    ELSE RenderSections(sections_data, i + 1,
            RenderElements(sections_data[i].elements,
                           IF i = 1 THEN st
                           ELSE [st EXCEPT !.body = Append(@, <<Node("sectPr")>>)],
                           bookmark_map(sections_data[i].elements)))

-----------------------------------------------------------------------------
(* The package and the post-processing stages.                             *)

\* w:footnote / w:endnote entries
SeparatorNotes ==
    << [id |-> -1, type |-> "separator", pStyle |-> "", text |-> ""],
       [id |-> 0, type |-> "continuationSeparator", pStyle |-> "", text |-> ""] >>

\* lines 453-465 / 604-615: the note holds a reference mark and " " + text
NoteEntry(id, pStyle, note_text) ==
    [id |-> id, type |-> "", pStyle |-> pStyle, text |-> " " \o note_text]

\* lines 449-451 / 600-602
new_note_id_always_one(notes) == 1

new_note_id(notes) ==
    LET existing_ids == {notes[i].id : i \in {j \in 1..Len(notes) : notes[j].id > 0}}
    IN  IF existing_ids # {} THEN Max(existing_ids) + 1 ELSE 1

\* create_styled_run: a superscript run, with a w:t only for a non-empty text
create_styled_run(text_content) == [Node("r") EXCEPT !.vertAlign = "superscript", !.t = text_content]

\* lines 479-498 / 617-639: prefix run, reference run, suffix run
new_runs(reference_format, ref_tag, note_id) ==
    LET parts == split_hash[reference_format]
        prefix == parts[1]
        suffix == IF Len(parts) > 1 THEN parts[2] ELSE ""
        ref_run == [create_styled_run("") EXCEPT !.ref = <<ref_tag, note_id>>]
    IN  (IF prefix # "" THEN <<create_styled_run(prefix)>> ELSE <<>>)
        \o <<ref_run>>
        \o (IF suffix # "" THEN <<create_styled_run(suffix)>> ELSE <<>>)

\* line 468: the first w:t of the document whose text is the placeholder, as
\* <<paragraph, child>>, or <<>>
FindPlaceholder(document, placeholder) ==
    LET children == UNION {{<<p, i>> : i \in 1..Len(document[p])} : p \in 1..Len(document)}
        hits == {pc \in children :
                    /\ document[pc[1]][pc[2]].tag = "r"
                    /\ document[pc[1]][pc[2]].t = placeholder}
    IN  IF hits = {} THEN <<>>
        ELSE CHOOSE h \in hits : \A g \in hits :
                h[1] < g[1] \/ (h[1] = g[1] /\ h[2] <= g[2])

\* reversed(new_runs)
reversed(runs) == [k \in 1..Len(runs) |-> runs[Len(runs) + 1 - k]]

\* run_to_replace.addprevious(r): r becomes the sibling directly before the
\* run at position i, which moves to i + 1
addprevious(paragraph, i, r) ==
    SubSeq(paragraph, 1, i - 1) \o <<r>> \o SubSeq(paragraph, i, Len(paragraph))

\* lines 502-503: for r in reversed(new_runs): run_to_replace.addprevious(r);
\* every run goes directly before the placeholder run, so the runs stand in
\* the order in which the loop takes them
RECURSIVE addprevious_loop(_, _, _)
addprevious_loop(paragraph, i, runs) ==
    IF runs = <<>> THEN paragraph
    ELSE addprevious_loop(addprevious(paragraph, i, Head(runs)), i + 1, Tail(runs))

\* lines 502-504: the new runs are inserted before the placeholder run, which
\* is then removed from the paragraph
ReplaceRun(paragraph, i, runs) ==
    LET added == addprevious_loop(paragraph, i, reversed(runs))
    IN  SubSeq(added, 1, i + Len(runs) - 1) \o SubSeq(added, i + Len(runs) + 1, Len(added))

\* a loop that ends at the first pending footnote without a location (line
\* 472 is a continue)
RECURSIVE footnote_loop_break(_, _, _)
footnote_loop_break(pending, st, reference_format) ==
    IF pending = <<>> THEN st
    ELSE LET placeholder == Head(pending)[1]
             new_footnote_id == new_note_id(st.notes)
             notes == Append(st.notes,
                             NoteEntry(new_footnote_id, "FootnoteText", Head(pending)[2]))
             target == FindPlaceholder(st.document, placeholder)
         IN  IF target = <<>> THEN [notes |-> notes, document |-> st.document]
             ELSE footnote_loop_break(Tail(pending),
                     [notes |-> notes,
                      document |-> [st.document EXCEPT ![target[1]] =
                                       ReplaceRun(@, target[2],
                                                  new_runs(reference_format, "footnoteReference",
                                                           new_footnote_id))]],
                     reference_format)

\* lines 447-505: the loop over the pending footnotes; st = [notes, document]
RECURSIVE footnote_loop(_, _, _)
footnote_loop(pending, st, reference_format) ==
    IF pending = <<>> THEN st
    ELSE LET placeholder == Head(pending)[1]
             new_footnote_id == new_note_id(st.notes)
             notes == Append(st.notes,
                             NoteEntry(new_footnote_id, "FootnoteText", Head(pending)[2]))
             target == FindPlaceholder(st.document, placeholder)
             document ==
                 IF target = <<>> THEN st.document      \* warning, continue
                 ELSE [st.document EXCEPT ![target[1]] =
                          ReplaceRun(@, target[2],
                                     new_runs(reference_format, "footnoteReference",
                                              new_footnote_id))]
         IN  footnote_loop(Tail(pending), [notes |-> notes, document |-> document],
                           reference_format)

\* line 644: doc_xml_content.replace(placeholder, combined_xml_str).  The text
\* of the document is edited, not its tree: the serialized runs take the place
\* of the placeholder characters, inside the w:t that held them.  (A run text
\* of the model either is a placeholder or contains none.)
ReplaceText(document, placeholder, runs) ==
    [p \in 1..Len(document) |->
        [i \in 1..Len(document[p]) |->
            IF document[p][i].tag = "r" /\ document[p][i].t = placeholder
            THEN [document[p][i] EXCEPT !.t = "", !.inner = runs]
            ELSE document[p][i]]]

\* lines 599-647: the loop over the pending endnotes
RECURSIVE endnote_loop(_, _, _)
endnote_loop(pending, st, reference_format) ==
    IF pending = <<>> THEN st
    ELSE LET placeholder == Head(pending)[1]
             new_endnote_id == new_note_id(st.notes)
             notes == Append(st.notes,
                             NoteEntry(new_endnote_id, "EndnoteText", Head(pending)[2]))
             document == ReplaceText(st.document, placeholder,
                                     new_runs(reference_format, "endnoteReference",
                                              new_endnote_id))
         IN  endnote_loop(Tail(pending), [notes |-> notes, document |-> document],
                          reference_format)

\* the namespace of the elements of a relationships part of a package
PackageRelationships == "http://schemas.openxmlformats.org/package/2006/relationships"
\* ns['rel'] (lines 411 / 569), the namespace the stages create the element in
ns_rel == "http://schemas.openxmlformats.org/officeDocument/2006/relationships"

\* lines 510-517 / 655-662: the test and the ids look at every child of the
\* root; the new element is a Relationship of the namespace ns['rel']
ensure_relationship(rels, target) ==
    IF \E i \in 1..Len(rels) : rels[i].Target = target THEN rels
    ELSE LET existing_rids == {rels[i].Id : i \in 1..Len(rels)}
             new_rid == IF existing_rids # {} THEN Max(existing_rids) + 1 ELSE 1
         IN  Append(rels, [ns |-> ns_rel, Id |-> new_rid, Target |-> target])

\* lines 522-526 / 667-672
ensure_override(overrides, part_name) ==
    IF \E i \in 1..Len(overrides) : overrides[i] = part_name THEN overrides
    ELSE Append(overrides, part_name)

post_process_footnotes(docx_bytes, pending, reference_format) ==
    IF pending = <<>> THEN docx_bytes
    ELSE LET root == IF "word/footnotes.xml" \notin docx_bytes.names THEN SeparatorNotes
                     ELSE docx_bytes.footnotes
             st == footnote_loop(pending, [notes |-> root, document |-> docx_bytes.document],
                                 reference_format)
         IN  [docx_bytes EXCEPT
                !.names = @ \cup {"word/footnotes.xml"},
                !.footnotes = st.notes,
                !.document = st.document,
                !.rels = ensure_relationship(@, "footnotes.xml"),
                !.overrides = ensure_override(@, "/word/footnotes.xml")]

post_process_endnotes(docx_bytes, pending, reference_format) ==
    IF pending = <<>> THEN docx_bytes
    ELSE LET root == IF "word/endnotes.xml" \notin docx_bytes.names THEN SeparatorNotes
                     ELSE docx_bytes.endnotes
             st == endnote_loop(pending, [notes |-> root, document |-> docx_bytes.document],
                                reference_format)
         IN  [docx_bytes EXCEPT
                !.names = @ \cup {"word/endnotes.xml"},
                !.endnotes = st.notes,
                !.document = st.document,
                !.rels = ensure_relationship(@, "endnotes.xml"),
                !.overrides = ensure_override(@, "/word/endnotes.xml")]

\* a stage that zips the part it rewrote only (lines 809-817 write every
\* file of the directory)
apply_numbering_formats_settings_only(docx_bytes, page_setup_data) ==
    LET endnote_fmt == page_setup_data.endnote_number_format
        footnote_fmt == page_setup_data.footnote_number_format
    IN  IF endnote_fmt = None /\ footnote_fmt = None THEN docx_bytes
        ELSE IF "word/settings.xml" \notin docx_bytes.names THEN docx_bytes
        ELSE [docx_bytes EXCEPT
                !.names = {"word/settings.xml"},
                !.settings.endnotePr = IF endnote_fmt # None THEN endnote_fmt ELSE @,
                !.settings.footnotePr = IF footnote_fmt # None THEN footnote_fmt ELSE @]

\* apply_numbering_formats: w:endnotePr / w:footnotePr numFmt of settings.xml;
\* lines 809-817 zip every file of the directory the package was unpacked to
apply_numbering_formats(docx_bytes, page_setup_data) ==
    LET endnote_fmt == page_setup_data.endnote_number_format
        footnote_fmt == page_setup_data.footnote_number_format
    IN  IF endnote_fmt = None /\ footnote_fmt = None THEN docx_bytes
        ELSE IF "word/settings.xml" \notin docx_bytes.names THEN docx_bytes
        ELSE [docx_bytes EXCEPT
                !.settings.endnotePr = IF endnote_fmt # None THEN endnote_fmt ELSE @,
                !.settings.footnotePr = IF footnote_fmt # None THEN footnote_fmt ELSE @]

\* numbering_generator.create_numbering_definitions: st = [numbering, num_id_map,
\* current_abstract_id, current_num_id]
RECURSIVE create_numbering_loop(_, _)
create_numbering_loop(definitions, st) ==
    IF definitions = <<>> THEN st
    ELSE LET definition == Head(definitions)
             abstract_num == [abstractNumId |-> st.current_abstract_id,
                              levels |-> definition.levels]
             num == [numId |-> st.current_num_id, abstractNumId |-> st.current_abstract_id]
         IN  create_numbering_loop(Tail(definitions),
                [numbering |-> [abstractNums |-> Append(st.numbering.abstractNums, abstract_num),
                                nums |-> Append(st.numbering.nums, num)],
                 num_id_map |-> [n \in DOMAIN st.num_id_map \cup {definition.name} |->
                                    IF n = definition.name THEN st.current_num_id
                                    ELSE st.num_id_map[n]],
                 current_abstract_id |-> st.current_abstract_id + 1,
                 current_num_id |-> st.current_num_id + 1])

\* an allocation that starts after the number of existing ids instead of after
\* their maximum (lines 31-32 take max(existing) + 1)
create_numbering_definitions_from_count(numbering_part, numbering_definitions) ==
    create_numbering_loop(numbering_definitions,
        [numbering |-> numbering_part,
         num_id_map |-> <<>>,
         current_abstract_id |-> Len(numbering_part.abstractNums) + 1,
         current_num_id |-> Len(numbering_part.nums) + 1])

create_numbering_definitions(numbering_part, numbering_definitions) ==
    LET existing_abstract_ids == {numbering_part.abstractNums[i].abstractNumId :
                                     i \in 1..Len(numbering_part.abstractNums)}
        existing_num_ids == {numbering_part.nums[i].numId : i \in 1..Len(numbering_part.nums)}
    IN  create_numbering_loop(numbering_definitions,
            [numbering |-> numbering_part,
             num_id_map |-> <<>>,
             current_abstract_id |->
                 (IF existing_abstract_ids # {} THEN Max(existing_abstract_ids) ELSE 0) + 1,
             current_num_id |->
                 (IF existing_num_ids # {} THEN Max(existing_num_ids) ELSE 0) + 1])

\* style_name.replace(" ", ""), over the style names of the model
style_id ==
    ("Heading 1" :> "Heading1") @@ ("Heading 2" :> "Heading2") @@ ("My Style" :> "MyStyle")

\* a linking loop that gives up at the first style that is not in the styles
\* part (lines 136-137 print a warning and go on)
RECURSIVE link_style_links_abort(_, _, _)
link_style_links_abort(style_links, num_id, styles) ==
    IF style_links = <<>> THEN styles
    ELSE LET style_id_to_find == style_id[Head(style_links)[1]]
             level == Head(style_links)[2]
         IN  IF style_id_to_find \in DOMAIN styles
             THEN link_style_links_abort(Tail(style_links), num_id,
                     [styles EXCEPT ![style_id_to_find] = <<level, num_id>>])
             ELSE styles

\* numbering_generator.link_styles_to_numbering: styles maps a style id to its
\* w:numPr, <<>> when it has none, else <<ilvl, numId>>
RECURSIVE link_style_links(_, _, _)
link_style_links(style_links, num_id, styles) ==
    IF style_links = <<>> THEN styles
    ELSE LET style_id_to_find == style_id[Head(style_links)[1]]
             level == Head(style_links)[2]
         IN  link_style_links(Tail(style_links), num_id,
                IF style_id_to_find \in DOMAIN styles
                THEN [styles EXCEPT ![style_id_to_find] = <<level, num_id>>]
                ELSE styles)

RECURSIVE link_styles_to_numbering(_, _, _)
link_styles_to_numbering(styles, numbering_definitions, num_id_map) ==
    IF numbering_definitions = <<>> THEN styles
    ELSE LET definition == Head(numbering_definitions)
         IN  link_styles_to_numbering(
                 link_style_links(definition.style_links, num_id_map[definition.name], styles),
                 Tail(numbering_definitions), num_id_map)

post_process_numbering(docx_bytes, numbering_definitions) ==
    IF numbering_definitions = <<>> THEN docx_bytes
    ELSE LET created == create_numbering_definitions(docx_bytes.numbering, numbering_definitions)
         IN  [docx_bytes EXCEPT
                !.numbering = created.numbering,
                !.styles = link_styles_to_numbering(@, numbering_definitions,
                                                    created.num_id_map)]

-----------------------------------------------------------------------------------------------------------------------------------------------------
(* Inputs of the math compiler, and the call.                              *)

RECURSIVE Flatten(_)
Flatten(seqs) == IF seqs = <<>> THEN <<>> ELSE Head(seqs) \o Flatten(Tail(seqs))

\* all sequences of at most n members of S
SeqsUpTo(S, n) == UNION {[1..k -> S] : k \in 0..n}

MaxTokens == 3

GenTokens ==
    {"x", "2", "{", "}", "(", ")", "^", "_", "&", "+",
     "\\frac", "\\sin", "\\sum", "\\left", "\\right", "\\text", "\\foo",
     "\\operatornamewithlimits"}

\* (1) every token list of at most MaxTokens tokens
GenCases == {[family |-> "tokens", tokens |-> t] : t \in SeqsUpTo(GenTokens, MaxTokens)}

\* (2) a base atom with a superscript and a subscript argument, in either order
MaxArgItems == 2
ScriptBases == {"x", "\\alpha"}
ArgAtoms == {<<"a">>, <<"\\beta">>}
ArgItems == {<<"a">>, <<"{", "}">>, <<"a", "^", "1">>}
ArgBodies == {Flatten(b) : b \in SeqsUpTo(ArgItems, MaxArgItems)}
ArgForms ==
    ArgAtoms \cup {<<"{">> \o b \o <<"}">> : b \in ArgBodies}
             \cup {<<"(">> \o b \o <<")">> : b \in ArgBodies}

ScriptCases ==
    {[family |-> "scripts", base |-> base, sup |-> a, sub |-> b, first |-> op] :
        base \in ScriptBases, a \in ArgForms, b \in ArgForms, op \in {"^", "_"}}

\* (3) a matrix environment of R rows of C cells, followed by a tail
MatrixShapes == {<<1, 1>>, <<1, 2>>, <<2, 1>>, <<2, 2>>}
MatrixEnvs == {"pmatrix", "bmatrix", "vmatrix", "matrix"}
CellForms == {<<>>, <<"a">>, <<"\\sum", "b">>}
MatrixTails == {<<>>, <<"z">>}

MatrixCases ==
    {[family |-> "matrix", env |-> env, cells |-> cells, tail |-> tail] :
        env \in MatrixEnvs,
        cells \in {m \in UNION {[1..sh[1] -> [1..sh[2] -> CellForms]] : sh \in MatrixShapes} :
                      m[1][1] # <<>>},
        tail \in MatrixTails}

RECURSIVE JoinWith(_, _)
JoinWith(seqs, sep) ==
    IF seqs = <<>> THEN <<>>
    ELSE IF Len(seqs) = 1 THEN seqs[1]
    ELSE seqs[1] \o <<sep>> \o JoinWith(Tail(seqs), sep)

BeginToken(env_name) == CHOOSE b \in DOMAIN BeginEnv : BeginEnv[b] = env_name

\* the token list of a case
\* (5) a structural command with a braced argument: the command, '{', a body
\* of items with balanced braces, '}', and a tail
MaxBodyItems == 2
BodyItems ==
    {<<"a">>, <<"a", "^", "2">>, <<"{", "a", "}">>, <<"\\sin", "x">>,
     <<"\\left", "(", "a", "\\right", ")">>, <<"\\sum", "a">>, <<"\\int", "_", "i", "a", "+">>}
BracedBodies == {Flatten(b) : b \in SeqsUpTo(BodyItems, MaxBodyItems)}
BracedCommands == {"\\sqrt", "\\hat", "\\frac", "^"}
BracedTails == {<<>>, <<"y">>, <<"+", "y">>}
BracedCases ==
    {[family |-> "braced", command |-> command, body |-> body, tail |-> tail] :
        command \in BracedCommands, body \in BracedBodies, tail \in BracedTails}

BracedTokens(c) ==
    (IF c.command = "^" THEN <<"x", "^">> ELSE <<c.command>>)
    \o <<"{">> \o c.body \o <<"}">>
    \o (IF c.command = "\\frac" THEN <<"{", "b", "}">> ELSE <<>>)
    \o c.tail

\* (6) a \text{...} of several words (tokenize gives one token per word and
\* drops the blanks), alone or as the argument of \sqrt, and a tail
MaxWords == 2
TextWords == {"a", "b", "2"}
TextCases ==
    {[family |-> "text", command |-> command, words |-> words, tail |-> tail] :
        command \in {"", "\\sqrt"}, words \in SeqsUpTo(TextWords, MaxWords),
        tail \in BracedTails}

TextTokens(c) ==
    (IF c.command = "" THEN <<>> ELSE <<c.command, "{">>)
    \o <<"\\text", "{">> \o c.words \o <<"}">>
    \o (IF c.command = "" THEN <<>> ELSE <<"}">>)
    \o c.tail

\* (8) an n-ary operator with a lower and an upper bound, in either order, a
\* body and a tail that begins with a boundary token
NaryBodies == {<<"x">>, <<"x", "^", "2">>, <<"\\sin", "x">>}
NaryTails == {<<>>, <<"+", "y">>, <<"=", "0">>}
NaryCases ==
    {[family |-> "nary", op |-> op, sub |-> a, sup |-> b, first |-> first,
      body |-> body, tail |-> tail] :
        op \in DOMAIN NARY_OPERATORS, a \in ArgForms, b \in ArgForms,
        first \in {"_", "^"}, body \in NaryBodies, tail \in NaryTails}

NaryTokens(c) ==
    <<c.op>>
    \o (IF c.first = "_"
        THEN <<"_">> \o c.sub \o <<"^">> \o c.sup
        ELSE <<"^">> \o c.sup \o <<"_">> \o c.sub)
    \o c.body \o c.tail

TokensOf(c) ==
    IF c.family = "tokens" THEN c.tokens
    ELSE IF c.family = "nary" THEN NaryTokens(c)
    ELSE IF c.family = "braced" THEN BracedTokens(c)
    ELSE IF c.family = "text" THEN TextTokens(c)
    ELSE IF c.family = "scripts"
    THEN IF c.first = "^"
         THEN <<c.base, "^">> \o c.sup \o <<"_">> \o c.sub
         ELSE <<c.base, "_">> \o c.sub \o <<"^">> \o c.sup
    ELSE <<BeginToken(c.env)>>
         \o JoinWith([i \in 1..Len(c.cells) |-> JoinWith(c.cells[i], "&")], "\\\\")
         \o <<EndToken(c.env)>> \o c.tail

\* the temporary directory holds a directory of another process; made lists
\* the directories the stages of the build have made
NoWorkspaces == [existing |-> {1}, made |-> <<>>]

\* no workflow is running
AgentIdle == [node |-> "idle"]

\* no document is being built
DocIdle ==
    /\ data = None
    /\ dpc = "idle"
    /\ processed_bytes = None
    /\ footnotes_to_inject = <<>>
    /\ endnotes_to_inject = <<>>
    /\ bookmark_id_counter = 0
    /\ log = <<>>
    /\ reapplied = <<>>
    /\ threads = <<>>
    /\ temp_dirs = NoWorkspaces
    /\ agent = AgentIdle

MathInitOf(cases) ==
    /\ mcase \in cases
    /\ latex = TokensOf(mcase)
    /\ omml = NoneResult
    /\ mpc = "input"
    /\ compiled = <<>>
    /\ DocIdle

\* the caller's omml = latex_to_omml(latex_text)
Compile ==
    /\ mpc = "input"
    /\ omml' = latex_to_omml(latex, "center")
    /\ mpc' = "compiled"
    /\ UNCHANGED <<mcase, latex, compiled>>
    /\ UNCHANGED docVars

MathNext == Compile

SpecMath == MathInitOf(GenCases) /\ [][MathNext]_vars
SpecScripts == MathInitOf(ScriptCases) /\ [][MathNext]_vars
SpecMatrix == MathInitOf(MatrixCases) /\ [][MathNext]_vars
SpecBraced == MathInitOf(BracedCases) /\ [][MathNext]_vars
SpecText == MathInitOf(TextCases) /\ [][MathNext]_vars

\* (7) token lists that begin, end and divide matrix environments and groups
\* anywhere, together with the matrices of (3)
MaxCursorTokens == 3
CursorTokens ==
    {"\\begin{pmatrix}", "\\end{pmatrix}", "&", "\\\\", "a", "\\sum", "{", "}", "^",
     "\\text", "\\left"}
CursorCases ==
    MatrixCases
    \cup {[family |-> "tokens", tokens |-> t] : t \in SeqsUpTo(CursorTokens, MaxCursorTokens)}
SpecCursor == MathInitOf(CursorCases) /\ [][MathNext]_vars
SpecNary == MathInitOf(NaryCases) /\ [][MathNext]_vars

-----------------------------------------------------------------------------
(* tokenize (lines 199-211).  A string is the sequence of its characters,  *)
(* a token the sequence of the characters it is made of.                   *)

Letters == {"a", "b", "d", "e", "g", "i", "n"}
Digits == {"1"}
Whitespace == {" ", "\n"}
\* [{}[\]()|^_&]
StructuralChars == {"{", "}", "[", "]", "(", ")", "|", "^", "_", "&"}

\* the end of the longest run of characters of the class that starts at i
RECURSIVE RunEnd(_, _, _)
RunEnd(string, i, class) ==
    IF i <= Len(string) /\ string[i] \in class THEN RunEnd(string, i + 1, class) ELSE i

StartsWith(string, i, prefix) ==
    /\ i + Len(prefix) - 1 <= Len(string)
    /\ SubSeq(string, i, i + Len(prefix) - 1) = prefix

\* \\begin\{[a-zA-Z]+\*?\} and \\end\{[a-zA-Z]+\*?\} at i: the position after
\* the match, 0 when there is none
MarkerEnd(string, i, word) ==
    LET name == i + Len(word) + 2
        star == RunEnd(string, name, Letters)
        brace == IF star <= Len(string) /\ string[star] = "*" THEN star + 1 ELSE star
    IN  IF /\ StartsWith(string, i, <<"\\">> \o word \o <<"{">>)
           /\ star > name
           /\ brace <= Len(string)
           /\ string[brace] = "}"
        THEN brace + 1
        ELSE 0

\* token_regex at i: the position after the match, 0 when there is none
CommandEnd(string, i) ==
    LET letters == RunEnd(string, i + 1, Letters)
    IN  IF string[i] # "\\" THEN 0
        ELSE IF MarkerEnd(string, i, <<"b", "e", "g", "i", "n">>) # 0
        THEN MarkerEnd(string, i, <<"b", "e", "g", "i", "n">>)
        ELSE IF MarkerEnd(string, i, <<"e", "n", "d">>) # 0
        THEN MarkerEnd(string, i, <<"e", "n", "d">>)
        ELSE IF letters > i + 1
        THEN (IF letters <= Len(string) /\ string[letters] = "*" THEN letters + 1 ELSE letters)
        ELSE IF i + 1 <= Len(string) /\ string[i + 1] \notin Whitespace
        THEN i + 2
        ELSE 0

\* a tokenizer that makes one token of every letter and digit
PartTokenEndSingle(string, i) == i + 1

\* [{}[\]()|^_&]|[a-zA-Z0-9]+|. at i, outside the commands
PartTokenEnd(string, i) ==
    IF string[i] \in Letters \cup Digits THEN RunEnd(string, i, Letters \cup Digits)
    ELSE i + 1

\* lines 203-210: the commands and, between them, the tokens of the parts
\* ('.' matches no newline)
RECURSIVE tokenize_loop(_, _, _)
tokenize_loop(string, i, tokens) ==
    IF i > Len(string) THEN tokens
    ELSE IF CommandEnd(string, i) # 0
    THEN tokenize_loop(string, CommandEnd(string, i),
                       Append(tokens, SubSeq(string, i, CommandEnd(string, i) - 1)))
    ELSE IF string[i] = "\n" THEN tokenize_loop(string, i + 1, tokens)
    ELSE tokenize_loop(string, PartTokenEnd(string, i),
                       Append(tokens, SubSeq(string, i, PartTokenEnd(string, i) - 1)))

\* token.isspace()
isspace(token) == token # <<>> /\ \A k \in 1..Len(token) : token[k] \in Whitespace

\* line 211
tokenize(latex_string) ==
    SelectSeq(tokenize_loop(latex_string, 1, <<>>), LAMBDA token : ~isspace(token))

\* (7) strings made of up to MaxPieces pieces
MaxPieces == 3
Pieces ==
    {<<"\\">>, <<"a">>, <<"1">>, <<"*">>, <<"{">>, <<"}">>, <<" ">>, <<"\n">>, <<"+">>,
     <<"\\", "b", "e", "g", "i", "n", "{">>, <<"\\", "e", "n", "d", "{">>,
     <<"a", "}">>, <<"a", "*", "}">>, <<"\\", "b">>}
TokenizeCases ==
    {[family |-> "strings", string |-> Flatten(pieces)] :
        pieces \in SeqsUpTo(Pieces, MaxPieces)}

TokenizeInit ==
    /\ mcase \in TokenizeCases
    /\ latex = <<>>
    /\ omml = NoneResult
    /\ mpc = "string"
    /\ compiled = <<>>
    /\ DocIdle

\* tokens = tokenize(latex_string)
Tokenize ==
    /\ mpc = "string"
    /\ latex' = [k \in 1..Len(tokenize(mcase.string)) |->
                    ConcatStrings(tokenize(mcase.string)[k])]
    /\ mpc' = "input"
    /\ UNCHANGED <<mcase, omml, compiled>>
    /\ UNCHANGED docVars

TokenizeNext == Tokenize

SpecTokenize == TokenizeInit /\ [][TokenizeNext]_vars

\* (4) a process in which several calls of latex_to_omml are made, each with a
\* token list and an alignment of its own; a call can begin while others are
\* under way (builds in several threads).  compiled holds one record per
\* call: its arguments, the ParserState made for it (line 343), the list
\* elements of its _parse_tokens, and its result once it has returned.
MaxCompiles == 3
RepeatInputs ==
    {<<"x", "^", "2">>,
     <<"x", "+", "y">>,
     <<"\\frac", "{", "x", "}", "{", "2", "}">>,
     <<"\\sum", "_", "x", "2">>,
     <<"\\text", "{", "x", "}", "y">>,
     <<"x", "^">>,
     <<>>}
Alignments == {"center", "left"}
RepeatCases == {[family |-> "repeat"]}

RepeatInit ==
    /\ mcase \in RepeatCases
    /\ latex = <<>>
    /\ omml = NoneResult
    /\ mpc = "input"
    /\ compiled = <<>>
    /\ DocIdle

\* a process that keeps one ParserState for all its calls: every call works
\* on the one made last
state_of_process(calls, c) == Len(calls)

\* state = ParserState(tokens) (line 343) is a local of the call: call c works
\* on the ParserState made for it
state_of_call(calls, c) == c

Parsing(calls) == {c \in 1..Len(calls) : calls[c].pc = "parsing"}

\* latex_to_omml is entered: lines 341-343, tokens = tokenize(latex_string),
\* None for no token, else a new ParserState with the cursor on the first
\* token
CompileCall(tokens, alignment) ==
    /\ Len(compiled) < MaxCompiles
    /\ latex' = tokens
    /\ compiled' = Append(compiled,
                          [latex |-> tokens, alignment |-> alignment,
                           state |-> [tokens |-> tokens, pos |-> 1],
                           elements |-> <<>>,
                           overlapped |-> Parsing(compiled) # {},
                           omml |-> NoneResult,
                           pc |-> IF tokens = <<>> THEN "returned" ELSE "parsing"])
    /\ omml' = IF tokens = <<>> THEN NoneResult ELSE omml      \* line 342: return None
    /\ mpc' = IF tokens = <<>> THEN "compiled" ELSE mpc
    /\ UNCHANGED mcase
    /\ UNCHANGED docVars

\* call c goes on: one test of the loop condition of _parse_tokens (called at
\* line 347 without stop tokens) and, with a token left, one iteration; with
\* none, lines 348-353: the elements are appended and the fragment returned.
\* An exception ends the call with None (lines 350-352).
ParseStep(c) ==
    /\ c \in Parsing(compiled)
    /\ \E s \in {state_of_call(compiled, c)}, others \in {Parsing(compiled) \ {c} # {}} :
       \E body \in {IF has_tokens(compiled[s].state.tokens, compiled[s].state.pos)
                    THEN TokensIteration(compiled[s].state.tokens, compiled[s].state.pos)
                    ELSE Ok(<<>>, compiled[s].state.pos)} :
       \E result \in {IF has_tokens(compiled[s].state.tokens, compiled[s].state.pos)
                      THEN NoneResult
                      ELSE OMathPara(compiled[c].alignment, compiled[c].elements)} :
          IF has_tokens(compiled[s].state.tokens, compiled[s].state.pos) /\ ~body.err
          THEN /\ compiled' = [compiled EXCEPT
                                  ![s].state.pos = body.pos,
                                  ![c].elements = @ \o body.els,
                                  ![c].overlapped = @ \/ others]
               /\ UNCHANGED <<latex, omml, mpc>>
          ELSE /\ compiled' = [compiled EXCEPT
                                  ![c].omml = result,
                                  ![c].pc = "returned",
                                  ![c].overlapped = @ \/ others]
               /\ latex' = compiled[c].latex
               /\ omml' = result
               /\ mpc' = "compiled"
    /\ UNCHANGED mcase
    /\ UNCHANGED docVars

RepeatNext ==
    \/ \E tokens \in RepeatInputs, alignment \in Alignments : CompileCall(tokens, alignment)
    \/ \E c \in 1..MaxCompiles : ParseStep(c)

SpecRepeat == RepeatInit /\ [][RepeatNext]_vars

-----------------------------------------------------------------------------
(* Inputs of create_document, and its steps.                               *)

\* a run item of the IR (absent keys: "")
RunItem(type, text) == [type |-> type, text |-> text, target_bookmark |-> ""]
CrossReference(target) == [type |-> "cross_reference", text |-> "", target_bookmark |-> target]

\* a paragraph element of the IR (absent keys: None, text "")
Paragraph(bookmark_id, text, content) ==
    [type |-> "paragraph", bookmark_id |-> bookmark_id, text |-> text, content |-> content]

\* a numbering definition of the IR
HeadingNumbering ==
    [name |-> "headings",
     levels |-> <<[level |-> 0, number_format |-> "decimal", text_format |-> "%1."]>>,
     style_links |-> <<<<"Heading 1", 0>>, <<"My Style", 0>>>>]

\* page_setup and numbering_definitions of the IR (None: the key is absent)
Setups ==
    { [footnote_reference_format |-> None, endnote_reference_format |-> None,
       footnote_number_format |-> None, endnote_number_format |-> None,
       numbering_definitions |-> <<>>],
      [footnote_reference_format |-> "#", endnote_reference_format |-> "(#",
       footnote_number_format |-> "lowerRoman", endnote_number_format |-> None,
       numbering_definitions |-> <<HeadingNumbering>>],
      [footnote_reference_format |-> "*", endnote_reference_format |-> "[#]",
       footnote_number_format |-> None, endnote_number_format |-> "upperLetter",
       numbering_definitions |-> <<>>] }

Document(setup, sections) ==
    [page_setup |-> [k \in {"footnote_reference_format", "endnote_reference_format",
                            "footnote_number_format", "endnote_number_format"} |-> setup[k]],
     sections |-> sections,
     numbering_definitions |-> setup.numbering_definitions]

\* (1) documents of one section whose paragraphs hold text, formula, footnote
\* and endnote runs: a list of items, "p" starting a new paragraph
MaxItems == 4
NoteItems == {"p", "text", "formula", "footnote", "endnote"}

\* the math markup of a formula run, by the place of the run in the list:
\* markup that compiles, markup that does not, and no markup
NoteFormulaTexts == <<"x ^ 2", "x ^", "", "\\frac a b">>

RECURSIVE ItemParagraphs(_, _, _, _)
ItemParagraphs(items, i, done, content) ==
    IF i > Len(items) THEN Append(done, Paragraph(None, "", content))
    ELSE IF items[i] = "p"
    THEN ItemParagraphs(items, i + 1, Append(done, Paragraph(None, "", content)), <<>>)
    ELSE ItemParagraphs(items, i + 1, done,
            Append(content,
                   RunItem(items[i],
                           IF items[i] = "formula"
                           THEN NoteFormulaTexts[((i - 1) % Len(NoteFormulaTexts)) + 1]
                           ELSE IF items[i] = "text" THEN "T"
                           ELSE "note " \o ToString(i))))

NoteCases ==
    {[family |-> "notes", items |-> items, setup |-> setup] :
        items \in SeqsUpTo(NoteItems, MaxItems), setup \in Setups}

\* (2) documents whose paragraphs carry bookmarks and cross-references: a list
\* of paragraphs, SectionBreak starting a new section.  Bookmark names are unique
\* in a document.
BookmarkIds == {"a", " a", "b"}
XrefParagraphs ==
    {Paragraph(id, "text of " \o id, <<>>) : id \in BookmarkIds}
    \cup {Paragraph(id, "", <<RunItem("text", "runs of "), RunItem("formula", "x ^ 2"),
                            RunItem("footnote", "f"), RunItem("text", id)>>) :
            id \in BookmarkIds}
    \cup {Paragraph(None, "", <<RunItem("text", "see "), CrossReference(id),
                              RunItem("endnote", "e")>>) : id \in BookmarkIds}
SectionBreak == [type |-> "section", bookmark_id |-> None, text |-> "", content |-> <<>>]
XrefItems == XrefParagraphs \cup {SectionBreak}
MaxXrefItems == 3
XrefLists == UNION {[1..n -> XrefItems] : n \in 2..MaxXrefItems}

RECURSIVE ItemSections(_, _, _, _)
ItemSections(items, i, done, elements) ==
    IF i > Len(items) THEN Append(done, [elements |-> elements])
    ELSE IF items[i].type = "section"
    THEN ItemSections(items, i + 1, Append(done, [elements |-> elements]), <<>>)
    ELSE ItemSections(items, i + 1, done, Append(elements, items[i]))

UniqueBookmarks(items) ==
    \A i, j \in 1..Len(items) :
        (i # j /\ items[i].bookmark_id # None /\ items[j].bookmark_id # None)
        => strip[items[i].bookmark_id] # strip[items[j].bookmark_id]

XrefCases ==
    {[family |-> "xref", items |-> items, setup |-> setup] :
        items \in {l \in XrefLists : UniqueBookmarks(l)},
        setup \in {s \in Setups : s.footnote_reference_format = None}}

\* (3) documents with custom numbering definitions: up to MaxDefinitions
\* definitions, each a name, a list of levels and style links (a dict of the
\* IR is the sequence of its items); names may repeat, a link may name a style
\* the template lacks ("My Style") or a level the definition lacks
NumberingLevel(level, number_format, text_format) ==
    [level |-> level, number_format |-> number_format, text_format |-> text_format]
NumberingDefinition(name, style_links, levels) ==
    [name |-> name, levels |-> levels, style_links |-> style_links]
LevelLists ==
    { <<NumberingLevel(0, "decimal", "%1.")>>,
      <<NumberingLevel(0, "lowerLetter", "%1)"), NumberingLevel(1, "decimal", "%1.%2")>> }
StyleLinkLists ==
    { <<<<"Heading 1", 0>>>>,
      <<<<"Heading 2", 1>>>>,
      <<<<"My Style", 0>>, <<"Heading 2", 0>>>>,
      <<<<"Heading 1", 1>>, <<"My Style", 1>>>> }
NumberingDefinitions ==
    {NumberingDefinition(name, style_links, levels) :
        name \in {"h", "k"}, style_links \in StyleLinkLists, levels \in LevelLists}
MaxDefinitions == 2
NumberingCases ==
    {[family |-> "numbering", items |-> <<"text", "footnote", "endnote">>,
      setup |-> [footnote_reference_format |-> None, endnote_reference_format |-> None,
                 footnote_number_format |-> "lowerRoman", endnote_number_format |-> None,
                 numbering_definitions |-> definitions]] :
        definitions \in SeqsUpTo(NumberingDefinitions, MaxDefinitions)}

\* (4) documents of one section with elements of every kind of the IR
Element(type, text, content) ==
    [type |-> type, bookmark_id |-> None, text |-> text, content |-> content]
Elements ==
    { Paragraph(None, "T", <<>>),
      Paragraph(None, "", <<>>),
      Paragraph(None, "", <<RunItem("text", "T"), RunItem("footnote", "f"),
                            RunItem("endnote", "e")>>),
      Element("list", "", <<RunItem("item", "i1"), RunItem("item", "i2")>>),
      Element("list", "", <<>>),
      Element("table", "", <<RunItem("row", "c1"), RunItem("row", "c2")>>),
      Element("table", "", <<>>),
      Element("image", "ok.png", <<>>),
      Element("image", "b.png", <<>>),
      Element("image", "lost.png", <<>>),
      Element("formula", "x ^ 2", <<>>),
      Element("header", "H", <<>>),
      Element("footer", "F {PAGE_NUM}", <<>>),
      Element("page_break", "", <<>>),
      Element("column_break", "", <<>>),
      Element("toc", "T", <<>>),
      Element("toc", "", <<>>) }
MaxElements == 2
ElementCases ==
    {[family |-> "elements", items |-> items, setup |-> setup] :
        items \in SeqsUpTo(Elements, MaxElements),
        setup \in {s \in Setups : s.endnote_number_format = None}}

\* (5) builds whose package is damaged when one of the stages unpacks it: the
\* bytes are not a zip archive, an entry is missing or is not well-formed
\* XML, or the document has no run whose text is a given pending placeholder.
\* A python-docx draft is never damaged; the fault stands for what the stage
\* finds when it is given such bytes.
MaxNotes == 4
StageNames == {"footnotes", "endnotes", "numbering_formats", "numbering"}
ReadParts ==
    {"[Content_Types].xml", "word/document.xml", "word/_rels/document.xml.rels",
     "word/styles.xml", "word/settings.xml", "word/numbering.xml", "word/footnotes.xml"}
Faults ==
    {[stage |-> stage, kind |-> kind, part |-> ""] :
        stage \in StageNames, kind \in {"none", "not_zip"}}
    \cup {[stage |-> stage, kind |-> kind, part |-> part] :
            stage \in StageNames, kind \in {"missing", "malformed"}, part \in ReadParts}
    \cup {[stage |-> "footnotes", kind |-> "no_location", part |-> FootnotePlaceholder(n)] :
            n \in 1..MaxNotes}
    \cup {[stage |-> "endnotes", kind |-> "no_location", part |-> EndnotePlaceholder(n)] :
            n \in 1..MaxNotes}
FaultCases ==
    {[family |-> "faults", items |-> items, setup |-> setup, fault |-> fault] :
        items \in {<<"text", "footnote", "endnote">>, <<"text", "footnote">>,
                   <<"footnote", "footnote", "endnote", "p", "endnote">>},
        setup \in {s \in Setups : s.footnote_number_format # None},
        fault \in Faults}

\* (6) documents with a paragraph of text, formula and footnote runs, where a
\* formula compiles ("x ^ 2", "\\frac a b") or does not ("x ^", "\\frac a", and
\* the empty markup), between other elements
MaxRuns == 3
FormulaRunItems ==
    {RunItem("text", "T"), RunItem("footnote", "f")}
    \cup {RunItem("formula", text) : text \in {"x ^ 2", "\\frac a b", "x ^", "\\frac a", ""}}
FormulaCases ==
    {[family |-> "formulas",
      items |-> before \o <<Paragraph(None, "", content)>> \o after,
      setup |-> setup] :
        content \in SeqsUpTo(FormulaRunItems, MaxRuns) \ {<<>>},
        before \in {<<>>, <<Paragraph(None, "H", <<>>)>>},
        after \in {<<>>, <<Paragraph(None, "", <<RunItem("formula", "x ^"),
                                                RunItem("text", "T")>>)>>,
                   <<Paragraph(None, "", <<RunItem("endnote", "e")>>)>>,
                   <<Element("page_break", "", <<>>)>>},
        setup \in {s \in Setups : s.footnote_reference_format = None}}

\* the IR of a case
DataOf(c) ==
    IF c.family \in {"notes", "numbering", "faults"}
    THEN Document(c.setup, <<[elements |-> ItemParagraphs(c.items, 1, <<>>, <<>>)]>>)
    ELSE IF c.items = <<>> THEN Document(c.setup, <<>>)
    ELSE Document(c.setup, ItemSections(c.items, 1, <<>>, <<>>))

\* The package python-docx saves for a body: the parts of its default
\* template that the stages read, and the paragraphs built.  Only the ids of
\* the template's relationships and numbering definitions matter here.
DraftPackage(body) ==
    [names |-> {"[Content_Types].xml", "word/document.xml", "word/_rels/document.xml.rels",
                "word/styles.xml", "word/settings.xml", "word/numbering.xml",
                "_rels/.rels", "word/fontTable.xml"},
     parts |-> [n \in {"_rels/.rels", "word/fontTable.xml"} |-> <<Node("template")>>],
     zip |-> TRUE,
     malformed |-> {},
     document |-> body,
     footnotes |-> <<>>,
     endnotes |-> <<>>,
     rels |-> <<[ns |-> PackageRelationships, Id |-> 3, Target |-> "styles.xml"],
                [ns |-> PackageRelationships, Id |-> 1, Target |-> "settings.xml"],
                [ns |-> PackageRelationships, Id |-> 2, Target |-> "numbering.xml"]>>,
     overrides |-> <<"/word/document.xml", "/word/styles.xml", "/word/settings.xml",
                     "/word/numbering.xml">>,
     settings |-> [footnotePr |-> None, endnotePr |-> None],
     numbering |-> [abstractNums |-> <<[abstractNumId |-> 0, levels |-> <<>>]>>,
                    nums |-> <<[numId |-> 1, abstractNumId |-> 0]>>],
     styles |-> [sid \in {"Normal", "Heading1", "Heading2"} |-> <<>>]]

\* The parts the element loop added, in the order it added them.
\* section.header / section.footer of python-docx: the first header (footer)
\* written gets a part of its own, with a relationship and an Override;
\* doc.add_picture: the picture gets a part and a relationship (its content
\* type is a Default of the template, so no Override).  A new relationship
\* takes the id after the largest one of the document.
RECURSIVE add_header_parts(_, _)
add_header_parts(package, hf) ==
    IF hf = <<>> THEN package
    ELSE add_header_parts(
            [package EXCEPT
                !.names = @ \cup {"word/" \o Head(hf).part},
                !.parts = [n \in DOMAIN @ \cup {"word/" \o Head(hf).part} |->
                              IF n \in DOMAIN @ THEN @[n] ELSE Head(hf).nodes],
                !.rels = Append(@, [ns |-> PackageRelationships,
                                    Id |-> Max({@[i].Id : i \in 1..Len(@)}) + 1,
                                    Target |-> Head(hf).part]),
                !.overrides = IF Head(hf).kind = "image" THEN @
                              ELSE Append(@, "/word/" \o Head(hf).part)],
            Tail(hf))

\* doc.save: the package of the state the element loop ended in
DraftOf(st) == add_header_parts(DraftPackage(st.body), st.hf)

\* page_setup.get(key, "[#]")
RefFormat(value) == IF value = None THEN "[#]" ELSE value

\* lines 1213-1225: the order of the post-processing steps of create_document
StageAfter(stage) ==
    CASE stage = "render" -> "footnotes"
      [] stage = "footnotes" -> "endnotes"
      [] stage = "endnotes" -> "numbering_formats"
      [] stage = "numbering_formats" -> "numbering"
      [] stage = "numbering" -> "done"

LogEntry(stage, in, out, pending, reference_format) ==
    [stage |-> stage, in |-> in, out |-> out, pending |-> pending,
     reference_format |-> reference_format]

MathIdle ==
    /\ latex = <<>>
    /\ omml = NoneResult
    /\ mpc = "idle"
    /\ compiled = <<>>

DocInitOf(cases) ==
    /\ mcase \in cases
    /\ MathIdle
    /\ data = DataOf(mcase)
    /\ dpc = "render"
    /\ processed_bytes = None
    /\ footnotes_to_inject = <<>>
    /\ endnotes_to_inject = <<>>
    /\ bookmark_id_counter = 0
    /\ log = <<>>
    /\ reapplied = <<>>
    /\ threads = <<>>
    /\ temp_dirs = NoWorkspaces
    /\ agent = AgentIdle

\* lines 1093-1095: an empty list of sections gets one section without
\* elements appended (the list is the one of data)
SectionsOf(d) == IF d.sections = <<>> THEN <<[elements |-> <<>>]>> ELSE d.sections

\* lines 1082-1199: the element loop over the sections of the IR
RenderDocument(d, counter) ==
    RenderSections(SectionsOf(d), 1, RenderState(<<>>, <<>>, <<>>, 0, counter))

\* lines 1202-1205: doc.save; st is the state the element loop ended in
SaveDraft(st) ==
    /\ processed_bytes' = DraftOf(st)
    /\ footnotes_to_inject' = st.fn
    /\ endnotes_to_inject' = st.en
    /\ bookmark_id_counter' = st.bm
    /\ log' = <<LogEntry("render", None, DraftOf(st), <<>>, "")>>

\* lines 1082-1205: Phase 1, the element loop and doc.save
Phase1 ==
    /\ dpc = "render"
    /\ SaveDraft(RenderDocument(data, bookmark_id_counter))
    /\ dpc' = StageAfter("render")
    /\ data' = [data EXCEPT !.sections = SectionsOf(data)]
    /\ UNCHANGED <<mathVars, reapplied, threads, temp_dirs, agent>>

\* what a fault makes of the bytes
Damage(package, fault) ==
    CASE fault.kind = "not_zip" -> [package EXCEPT !.zip = FALSE]
      [] fault.kind = "missing" -> [package EXCEPT !.names = @ \ {fault.part}]
      [] fault.kind = "malformed" ->
            [package EXCEPT !.malformed = @ \cup ({fault.part} \cap package.names)]
      [] fault.kind = "no_location" ->
            [package EXCEPT !.document =
                [p \in 1..Len(@) |-> SelectSeq(@[p], LAMBDA node : node.t # fault.part)]]
      [] OTHER -> package

\* the bytes the stage is called with
StageInput(stage) ==
    IF "fault" \in DOMAIN mcase /\ mcase.fault.stage = stage
    THEN Damage(processed_bytes, mcase.fault)
    ELSE processed_bytes

\* etree.parse / ET.parse / open of an entry raises: the file does not exist
\* or is not well-formed
CannotParse(package, name) == name \notin package.names \/ name \in package.malformed

\* The stage raises (every stage has try/finally and no except):
\* zipfile.ZipFile raises on bytes that are no archive; the footnote stage
\* parses the footnotes part if it exists (434), the document (445), the
\* relationships (508) and the content types (520); the endnote stage parses
\* the endnotes part if it exists (586), opens the document as text (596) and
\* parses the relationships (653) and the content types (665); the
\* numbering-format stage parses the settings part if it exists (779-783); the
\* numbering stage parses the numbering and the styles part (1030-1033).
StageRaises(stage, package) ==
    \/ ~package.zip
    \/ /\ stage = "footnotes"
       /\ \/ "word/footnotes.xml" \in package.names \cap package.malformed
          \/ CannotParse(package, "word/document.xml")
          \/ CannotParse(package, "word/_rels/document.xml.rels")
          \/ CannotParse(package, "[Content_Types].xml")
    \/ /\ stage = "endnotes"
       /\ \/ "word/endnotes.xml" \in package.names \cap package.malformed
          \/ "word/document.xml" \notin package.names
          \/ CannotParse(package, "word/_rels/document.xml.rels")
          \/ CannotParse(package, "[Content_Types].xml")
    \/ /\ stage = "numbering_formats"
       /\ "word/settings.xml" \in package.names \cap package.malformed
    \/ /\ stage = "numbering"
       /\ \/ CannotParse(package, "word/numbering.xml")
          \/ CannotParse(package, "word/styles.xml")

\* tempfile.mkdtemp(): a directory that did not exist; of the names that are
\* free the model takes the smallest
mkdtemp(existing) ==
    CHOOSE n \in 1..(Cardinality(existing) + 1) :
        n \notin existing /\ \A m \in 1..(n - 1) : m \in existing

\* shutil.rmtree(temp_dir)
rmtree(existing, temp_dir) == existing \ {temp_dir}

\* how an invocation that extracts the package ends: an exception, the return
\* of apply_numbering_formats when the package has no settings part (lines
\* 779-781, inside the try), or the return of the new bytes
StageExit(stage, package) ==
    IF StageRaises(stage, package) THEN "raise"
    ELSE IF stage = "numbering_formats" /\ "word/settings.xml" \notin package.names
    THEN "early"
    ELSE "return"

\* a stage that removes its directory only before it returns the new bytes
\* (the source removes it in the finally clause)
StageWorkspace_without_finally(temp, stage, exit) ==
    LET temp_dir == mkdtemp(temp.existing) IN
    [existing |-> IF exit = "return" THEN rmtree(temp.existing \cup {temp_dir}, temp_dir)
                  ELSE temp.existing \cup {temp_dir},
     made |-> Append(temp.made, [dir |-> temp_dir, stage |-> stage, exit |-> exit])]

\* temp_dir = tempfile.mkdtemp(); try: ... finally: shutil.rmtree(temp_dir)
\* (lines 419-420 and 545-546, 575-576 and 686-687, 772-773 and 819-820,
\* 1021-1022 and 1063-1064): whatever the exit, the directory is removed
StageWorkspace(temp, stage, exit) ==
    LET temp_dir == mkdtemp(temp.existing) IN
    [existing |-> rmtree(temp.existing \cup {temp_dir}, temp_dir),
     made |-> Append(temp.made, [dir |-> temp_dir, stage |-> stage, exit |-> exit])]

\* a step of the pipeline: the stage runs when its condition holds; when it
\* raises, create_document raises (lines 1213-1225 are in no try block)
Stage(stage, runs, out, pending, reference_format) ==
    /\ dpc = stage
    /\ IF runs /\ StageRaises(stage, StageInput(stage))
       THEN /\ dpc' = "raised"
            /\ UNCHANGED <<processed_bytes, log>>
       ELSE /\ dpc' = StageAfter(stage)
            /\ IF runs
               THEN /\ processed_bytes' = out
                    /\ log' = Append(log, LogEntry(stage, StageInput(stage), out, pending,
                                                   reference_format))
               ELSE UNCHANGED <<processed_bytes, log>>
    /\ temp_dirs' = IF runs
                    THEN StageWorkspace(temp_dirs, stage, StageExit(stage, StageInput(stage)))
                    ELSE temp_dirs
    /\ UNCHANGED <<mathVars, data, footnotes_to_inject, endnotes_to_inject,
                   bookmark_id_counter, reapplied, threads, agent>>

\* lines 1213-1214
StageFootnotes ==
    LET reference_format == RefFormat(data.page_setup.footnote_reference_format)
    IN  Stage("footnotes", footnotes_to_inject # <<>>,
              post_process_footnotes(StageInput("footnotes"), footnotes_to_inject,
                                     reference_format),
              footnotes_to_inject, reference_format)

\* lines 1216-1217
StageEndnotes ==
    LET reference_format == RefFormat(data.page_setup.endnote_reference_format)
    IN  Stage("endnotes", endnotes_to_inject # <<>>,
              post_process_endnotes(StageInput("endnotes"), endnotes_to_inject,
                                    reference_format),
              endnotes_to_inject, reference_format)

\* lines 1219-1220
StageNumberingFormats ==
    Stage("numbering_formats",
          data.page_setup.endnote_number_format # None
              \/ data.page_setup.footnote_number_format # None,
          apply_numbering_formats(StageInput("numbering_formats"), data.page_setup),
          <<>>, "")

\* lines 1223-1225
StageNumbering ==
    Stage("numbering", data.numbering_definitions # <<>>,
          post_process_numbering(StageInput("numbering"), data.numbering_definitions),
          <<>>, "")

\* A further application of a note stage to the package the build returned,
\* with the pending notes of the build (their placeholders are no longer in
\* the document).  The stage has try/finally and no except: when it raises
\* the caller gets the exception and no bytes, and the directory is removed.
MaxReapply == 1

Reapply(stage, out, pending, reference_format) ==
    /\ dpc = "done"
    /\ Len(reapplied) < MaxReapply
    /\ IF StageRaises(stage, processed_bytes)
       THEN /\ dpc' = "raised"
            /\ UNCHANGED <<processed_bytes, reapplied>>
       ELSE /\ processed_bytes' = out
            /\ reapplied' = Append(reapplied, LogEntry(stage, processed_bytes, out, pending,
                                                       reference_format))
            /\ UNCHANGED dpc
    /\ temp_dirs' = StageWorkspace(temp_dirs, stage, StageExit(stage, processed_bytes))
    /\ UNCHANGED <<mathVars, data, footnotes_to_inject, endnotes_to_inject,
                   bookmark_id_counter, log, threads, agent>>

ReapplyFootnotes ==
    LET reference_format == RefFormat(data.page_setup.footnote_reference_format)
    IN  /\ footnotes_to_inject # <<>>
        /\ Reapply("footnotes",
                   post_process_footnotes(processed_bytes, footnotes_to_inject,
                                          reference_format),
                   footnotes_to_inject, reference_format)

ReapplyEndnotes ==
    LET reference_format == RefFormat(data.page_setup.endnote_reference_format)
    IN  /\ endnotes_to_inject # <<>>
        /\ Reapply("endnotes",
                   post_process_endnotes(processed_bytes, endnotes_to_inject,
                                         reference_format),
                   endnotes_to_inject, reference_format)

DocNext ==
    \/ Phase1
    \/ StageFootnotes
    \/ StageEndnotes
    \/ StageNumberingFormats
    \/ StageNumbering
    \/ ReapplyFootnotes
    \/ ReapplyEndnotes

Spec == DocInitOf(NoteCases) /\ [][DocNext]_vars
SpecXref == DocInitOf(XrefCases) /\ [][DocNext]_vars
SpecNumbering == DocInitOf(NumberingCases) /\ [][DocNext]_vars
SpecElements == DocInitOf(ElementCases) /\ [][DocNext]_vars
SpecFaults == DocInitOf(FaultCases) /\ [][DocNext]_vars
SpecFormulas == DocInitOf(FormulaCases) /\ [][DocNext]_vars

-----------------------------------------------------------------------------
(* Two builds in two threads of one process.  add_bookmark (lines 693-713) *)
(* reads the module global _bookmark_id_counter for the start marker (704) *)
(* and again for the end marker (710), and then increments it (713: a load *)
(* and a store).  A thread can be suspended between any two of these.      *)

MaxBookmarks == 3
BookmarkCases ==
    {[family |-> "bookmarks", bookmarks |-> n] : n \in [1..2 -> 1..MaxBookmarks]}

\* a build that has todo bookmarked paragraphs to render; marks are the
\* bookmarks of its document so far
BuildThread(todo) ==
    [pc |-> "start", todo |-> todo, marks |-> <<>>, start_id |-> -1, loaded |-> -1]

BookmarkInit ==
    /\ mcase \in BookmarkCases
    /\ MathIdle
    /\ data = None
    /\ dpc = "idle"
    /\ processed_bytes = None
    /\ footnotes_to_inject = <<>>
    /\ endnotes_to_inject = <<>>
    /\ bookmark_id_counter = 0
    /\ log = <<>>
    /\ reapplied = <<>>
    /\ threads = [t \in 1..2 |-> BuildThread(mcase.bookmarks[t])]
    /\ temp_dirs = NoWorkspaces
    /\ agent = AgentIdle

ThreadFrame ==
    UNCHANGED <<mathVars, data, dpc, processed_bytes, footnotes_to_inject,
                endnotes_to_inject, log, reapplied, temp_dirs, agent>>

\* line 704: bookmark_start.set(qn('w:id'), str(_bookmark_id_counter))
BookmarkStart(t) ==
    /\ threads[t].pc = "start"
    /\ threads[t].todo > 0
    /\ threads' = [threads EXCEPT ![t].start_id = bookmark_id_counter, ![t].pc = "end"]
    /\ UNCHANGED bookmark_id_counter
    /\ ThreadFrame

\* line 710: bookmark_end.set(qn('w:id'), str(_bookmark_id_counter))
BookmarkEnd(t) ==
    /\ threads[t].pc = "end"
    /\ threads' = [threads EXCEPT
                      ![t].marks = Append(@, [start |-> threads[t].start_id,
                                              end |-> bookmark_id_counter]),
                      ![t].pc = "load"]
    /\ UNCHANGED bookmark_id_counter
    /\ ThreadFrame

\* line 713, _bookmark_id_counter += 1: the load of the global
CounterLoad(t) ==
    /\ threads[t].pc = "load"
    /\ threads' = [threads EXCEPT ![t].loaded = bookmark_id_counter, ![t].pc = "store"]
    /\ UNCHANGED bookmark_id_counter
    /\ ThreadFrame

\* line 713: the store of the sum; the build goes on to its next bookmark
CounterStore(t) ==
    /\ threads[t].pc = "store"
    /\ bookmark_id_counter' = threads[t].loaded + 1
    /\ threads' = [threads EXCEPT ![t].todo = @ - 1, ![t].pc = "start"]
    /\ ThreadFrame

BookmarkNext ==
    \E t \in 1..2 :
        \/ BookmarkStart(t)
        \/ BookmarkEnd(t)
        \/ CounterLoad(t)
        \/ CounterStore(t)

SpecBookmarks == BookmarkInit /\ [][BookmarkNext]_vars

-----------------------------------------------------------------------------
(* The self-correcting workflow of langgraph_workflow.py: planner, sorter, *)
(* generator, executor, corrector and the router should_continue.  The     *)
(* AgentState keeps what the nodes and the router test:                    *)
(*   command_blocks, sorted_blocks   the number of blocks (-1: no key)     *)
(*   dependencies_valid   every dependency is an index and there is no     *)
(*                        cycle                                            *)
(*   tool_calls_per_block per block, "calls" or "empty" (an empty list)    *)
(* and error, final_doc_state (set or not) and correction_attempts.        *)
(* The language model is reached through ollama_create, which line 14      *)
(* binds to create() of ollama_pydantic.py.  corrector_entries and         *)
(* fix_failed are history of the run; finished lists the runs that ended,  *)
(* each with the way it ended.  pc is the place of the run inside its      *)
(* node: "start", or "gather" while generator_node waits at line 183;      *)
(* supersteps counts the nodes the run has completed.                      *)

MaxInvocations == 3
UserCommands == {"", "add a title", "add a table", "make the title bold"}
WorkflowCases == {[family |-> "workflow"]}

\* graph.ainvoke is called with a config that sets no recursion_limit (lines
\* 343-345): langgraph ends a run that has not reached END within its default
\* of 25 supersteps with GraphRecursionError
recursion_limit == 25

\* ollama_pydantic.py lines 13-19: create() takes keyword arguments only;
\* response_model and messages have no default
create_parameters == {"response_model", "model", "messages", "max_retries", "ollama_base_url"}
create_required == {"response_model", "messages"}

\* the keywords of the three calls of ollama_create (lines 140, 179, 276)
NodeKeywords == {"response_model", "prompt"}

\* `container, log = await ollama_create(**keywords)`: a keyword that create()
\* does not have, or a required one that is missing, raises TypeError at the
\* call; create() is no coroutine function and returns Optional[T], so the
\* await of what a bound call returns raises TypeError as well
await_ollama_create(keywords) ==
    IF keywords \subseteq create_parameters /\ create_required \subseteq keywords
    THEN [raises |-> "TypeError: object can't be used in 'await' expression",
          container |-> None]
    ELSE [raises |-> "TypeError: create() got an unexpected keyword argument",
          container |-> None]

\* lines 337-342: initial_state of parse_natural_language_to_json; the entry
\* point is the planner
initial_state(user_command) ==
    [node |-> "planner", user_command |-> user_command, error |-> FALSE,
     command_blocks |-> -1, dependencies_valid |-> TRUE, sorted_blocks |-> -1,
     tool_calls_per_block |-> <<>>, final_doc_state |-> FALSE, correction_attempts |-> 0,
     corrector_entries |-> 0, fix_failed |-> FALSE, pc |-> "start", supersteps |-> 0,
     finished |-> <<>>]

\* before the first call of parse_natural_language_to_json
NotInvoked == [initial_state("") EXCEPT !.node = "idle"]

WorkflowInit ==
    /\ mcase \in WorkflowCases
    /\ MathIdle
    /\ data = None
    /\ dpc = "idle"
    /\ processed_bytes = None
    /\ footnotes_to_inject = <<>>
    /\ endnotes_to_inject = <<>>
    /\ bookmark_id_counter = 0
    /\ log = <<>>
    /\ reapplied = <<>>
    /\ threads = <<>>
    /\ temp_dirs = NoWorkspaces
    /\ agent = NotInvoked

\* a node function goes on until it returns the state, until an exception
\* leaves it, or until an await gives the event loop to other tasks
Returns(state) == [state |-> [state EXCEPT !.pc = "start"], raises |-> "no", yields |-> FALSE]
Raises(state, exception) ==
    [state |-> [state EXCEPT !.pc = "start"], raises |-> exception, yields |-> FALSE]
Yields(state, pc) == [state |-> [state EXCEPT !.pc = pc], raises |-> "no", yields |-> TRUE]

\* planner_node, lines 136-146: the call of line 140 is in no try statement
planner_node(state) ==
    LET called == await_ollama_create(NodeKeywords) IN
    IF called.raises # "no" THEN Raises(state, called.raises)
    ELSE IF called.container # None
    THEN Returns([state EXCEPT !.command_blocks = called.container.command_blocks,
                               !.dependencies_valid = called.container.dependencies_valid])
    ELSE Returns([state EXCEPT !.error = TRUE])

\* sorter_node, lines 149-168
sorter_node(state) ==
    IF state.error \/ state.command_blocks <= 0 THEN Returns(state)
    ELSE IF ~state.dependencies_valid THEN Returns([state EXCEPT !.error = TRUE])
    ELSE Returns([state EXCEPT !.sorted_blocks = state.command_blocks])

\* generator_node, lines 172-192.  Lines 174-182 test the guard and make one
\* coroutine per block; `await asyncio.gather(*tasks)` (line 183) gives the
\* event loop to the tasks and to whatever else is scheduled, and the node
\* goes on when they are done: each task calls ollama_create (line 179), and
\* gather raises the exception of the first task that raises; a block
\* without a container leaves an empty list and the error (lines 185-192)
generator_node(state) ==
    IF state.pc = "start"
    THEN IF state.error \/ state.sorted_blocks <= 0 THEN Returns(state)
         ELSE Yields(state, "gather")
    ELSE LET called == await_ollama_create(NodeKeywords) IN
         IF called.raises # "no" THEN Raises(state, called.raises)
         ELSE Returns([state EXCEPT
                          !.tool_calls_per_block =
                              [i \in 1..state.sorted_blocks |->
                                  IF called.container = None THEN "empty"
                                  ELSE called.container.calls],
                          !.error = (called.container = None)])

\* executor_node, lines 198-262: line 216 calls _normalize_and_validate_tool_call
\* for the first tool call; the module neither defines nor imports that name
\* (NameError, outside the try of line 229).  With no tool call at all the
\* empty document is validated and post-processed.
executor_node(state) ==
    IF state.error \/ state.tool_calls_per_block = <<>> THEN Returns(state)
    ELSE IF \E i \in 1..Len(state.tool_calls_per_block) :
               state.tool_calls_per_block[i] = "calls"
    THEN Raises(state, "NameError: name '_normalize_and_validate_tool_call' is not defined")
    ELSE Returns([state EXCEPT !.final_doc_state = TRUE, !.error = FALSE])

\* corrector_node, lines 265-286: state["sorted_blocks"][-1] and
\* state["tool_calls_per_block"][-1] are read for the prompt, then line 276
\* calls ollama_create
corrector_node(state) ==
    LET entered == [state EXCEPT !.corrector_entries = @ + 1] IN
    IF ~state.error THEN Returns(entered)
    ELSE IF state.sorted_blocks < 1 THEN Raises(entered, "KeyError: 'sorted_blocks'")
    ELSE IF state.tool_calls_per_block = <<>>
    THEN Raises(entered, "IndexError: list index out of range")
    ELSE LET called == await_ollama_create(NodeKeywords) IN
         IF called.raises # "no" THEN Raises(entered, called.raises)
         ELSE IF called.container # None
         THEN Returns([entered EXCEPT
                          !.tool_calls_per_block[Len(state.tool_calls_per_block)] =
                              called.container.calls,
                          !.error = FALSE])
         ELSE Returns([entered EXCEPT !.fix_failed = TRUE])

\* should_continue, lines 290-299
should_continue(state) ==
    IF state.error
    THEN IF state.correction_attempts >= 2 THEN "END" ELSE "corrector"
    ELSE IF ~state.final_doc_state THEN "executor"
    ELSE "END"

\* lines 302-315: the nodes of the graph and its edges; the edge after the
\* executor is the conditional one
GraphNodes == {"planner", "sorter", "generator", "executor", "corrector"}

NodeFunction(node, state) ==
    CASE node = "planner" -> planner_node(state)
      [] node = "sorter" -> sorter_node(state)
      [] node = "generator" -> generator_node(state)
      [] node = "executor" -> executor_node(state)
      [] node = "corrector" -> corrector_node(state)

Edge(node, state) ==
    CASE node = "planner" -> "sorter"
      [] node = "sorter" -> "generator"
      [] node = "generator" -> "executor"
      [] node = "executor" -> should_continue(state)
      [] node = "corrector" -> "executor"

WorkflowFrame ==
    UNCHANGED <<mathVars, data, dpc, processed_bytes, footnotes_to_inject,
                endnotes_to_inject, bookmark_id_counter, log, reapplied, threads,
                temp_dirs>>

\* parse_natural_language_to_json, lines 322-345: a call starts a run of the
\* graph at its entry point with the initial_state of the call
Invoke(user_command) ==
    /\ agent.node \in {"idle", "END", "raised"}
    /\ Len(agent.finished) < MaxInvocations
    /\ agent' = [initial_state(user_command) EXCEPT !.finished = agent.finished]
    /\ WorkflowFrame

\* graph.ainvoke (line 345) runs the node the run is at, up to the await at
\* which the node gives way or to its end, and then follows its edge; an
\* exception that leaves a node function leaves graph.ainvoke and
\* parse_natural_language_to_json, which has no try statement, and so does the
\* GraphRecursionError of a run that has used its supersteps before END
NodeStep ==
    /\ agent.node \in GraphNodes
    /\ \E ran \in {NodeFunction(agent.node, agent)} :
       \E ended \in {IF ran.raises # "no" THEN ran.raises
                     ELSE IF ran.yields THEN "no"
                     ELSE IF Edge(agent.node, ran.state) = "END" THEN "END"
                     ELSE IF agent.supersteps + 1 >= recursion_limit
                     THEN "GraphRecursionError"
                     ELSE "no"} :
          agent' = [ran.state EXCEPT
                       !.node = IF ran.yields THEN agent.node
                                ELSE IF ended = "END" THEN "END"
                                ELSE IF ended # "no" THEN "raised"
                                ELSE Edge(agent.node, ran.state),
                       !.supersteps = IF ran.raises = "no" /\ ~ran.yields THEN @ + 1 ELSE @,
                       !.finished = IF ended = "no" THEN @
                                    ELSE Append(@, [user_command |-> agent.user_command,
                                                    node |-> agent.node,
                                                    ended |-> ended])]
    /\ WorkflowFrame

WorkflowNext ==
    \/ \E user_command \in UserCommands : Invoke(user_command)
    \/ NodeStep

SpecWorkflow == WorkflowInit /\ [][WorkflowNext]_vars

-----------------------------------------------------------------------------
(* Claims about the math compiler.                                         *)

\* C6: for every input, malformed ones included, latex_to_omml never raises to
\* its caller: the call ends with an oMathPara fragment or with None.
C6_NeverRaises ==
    mpc = "compiled" => omml.kind \in {"oMathPara", "None"}

\* \left without \right: the error is contained, the call returns None
C6_Witness ==
    /\ mpc = "compiled"
    /\ latex = <<"\\left", "(", "x">>
    /\ omml = NoneResult

\* backslash commands that are in none of the tables of the compiler
\* (SYMBOL_MAP, KNOWN_FUNCTIONS, NARY_OPERATORS, the structural commands of
\* the if-chain and \operatorname, \operatorname*)
UnknownCommands == {"\\foo", "\\bar", "\\begin", "\\operatornamewithlimits"}

\* C7: an unknown backslash command never aborts the compile: it consumes
\* exactly that one token, produces one literal text run whose text is the
\* raw command name, and the tokens after it are compiled exactly as they
\* would be without it (stated for a command at the start of the input).
C7_Original ==
    (mpc = "compiled" /\ latex # <<>> /\ latex[1] \in UnknownCommands) =>
        LET run == _create_run_omml(latex[1], FALSE)
            rest == Tail(latex)
            alone == latex_to_omml(rest, "center")
        IN  /\ _parse_single_element(latex, 1) = Ok(<<run>>, 2)
            /\ rest = <<>> => omml = OMathPara("center", <<run>>)
            /\ (rest # <<>> /\ alone.kind = "oMathPara")
                    => omml = OMathPara("center", <<run>> \o alone.oMath)

\* the elements an argument compiles to
ArgEls(a) == _parse_argument(a, 1).els
\* an argument is empty when it compiles to no element: {}, {{}}, ...
NonEmptyArg(a) == ArgEls(a) # <<>>

WrapMatrix(env, mat_el) ==
    IF env = "pmatrix" THEN <<_create_delimiter_omml("(", ")", <<mat_el>>)>>
    ELSE IF env = "bmatrix" THEN <<_create_delimiter_omml("[", "]", <<mat_el>>)>>
    ELSE IF env = "vmatrix" THEN <<_create_delimiter_omml("|", "|", <<mat_el>>)>>
    ELSE <<mat_el>>

\* a cell compiled on its own
CellEls(c) == _parse_tokens(c, 1, {}).els

\* C9: a matrix environment of R rows of C cells closed by its \end token
\* compiles to a matrix node with exactly R rows of exactly C cells, each cell
\* compiled independently and empty cells kept, in the delimiter pair of its
\* variant; the tokens after \end are parsed outside the matrix.
C9_MatrixRowsAndCells ==
    (mpc = "compiled" /\ mcase.family = "matrix") =>
        LET R == Len(mcase.cells)
            C == Len(mcase.cells[1])
            rows == [i \in 1..R |-> [j \in 1..C |-> CellEls(mcase.cells[i][j])]]
        IN  omml = OMathPara("center",
                      WrapMatrix(mcase.env, _create_matrix_omml(rows))
                      \o CellEls(mcase.tail))

-----------------------------------------------------------------------------
(* Claims about the renderer.                                              *)

\* the run items of the IR, in document order
ElementsOf(d) == Flatten([s \in 1..Len(SectionsOf(d)) |-> SectionsOf(d)[s].elements])
RunItems(d) ==
    Flatten([e \in 1..Len(ElementsOf(d)) |->
                IF ElementsOf(d)[e].type = "paragraph" THEN ContentOf(ElementsOf(d)[e])
                ELSE <<>>])
RunsOfType(d, types) == SelectSeq(RunItems(d), LAMBDA r : r.type \in types)

\* the nodes of a document part, those inside a w:t included
TopNodes(document) == Flatten(document)
DeepNodes(document) ==
    TopNodes(document)
    \o Flatten([i \in 1..Len(TopNodes(document)) |-> TopNodes(document)[i].inner])

\* every string that can be a placeholder of this build
PlaceholderTokens ==
    {FootnotePlaceholder(n) : n \in 1..Len(RunItems(data))}
    \cup {EndnotePlaceholder(n) : n \in 1..Len(RunItems(data))}

Count(seq, Test(_)) == Cardinality({i \in 1..Len(seq) : Test(seq[i])})

\* the stages applied so far, those after the build included
Applications == log \o reapplied
NoteStages == {"footnotes", "endnotes"}
PartOf(stage) == IF stage = "footnotes" THEN "word/footnotes.xml" ELSE "word/endnotes.xml"
NotesOf(package, stage) == IF stage = "footnotes" THEN package.footnotes ELSE package.endnotes
MaxPositiveId(notes) ==
    LET ids == {notes[i].id : i \in {j \in 1..Len(notes) : notes[j].id > 0}}
    IN  IF ids = {} THEN 0 ELSE Max(ids)

\* C1: for a document whose paragraphs contain N formula, footnote and
\* endnote runs in total, Phase 1 records exactly N pending placeholders (one
\* per run).
C1_Original ==
    dpc \notin {"idle", "render"} =>
        Len(footnotes_to_inject) + Len(endnotes_to_inject)
            = Len(RunsOfType(data, {"formula", "footnote", "endnote"}))

\* what the claim makes of one paragraph: every run whose text is a pending
\* placeholder gives way to the new runs, as children of the paragraph
Spliced(paragraph, entry) ==
    Flatten([i \in 1..Len(paragraph) |->
        IF paragraph[i].tag = "r"
            /\ \E k \in 1..Len(entry.pending) : entry.pending[k][1] = paragraph[i].t
        THEN LET k == CHOOSE k \in 1..Len(entry.pending) :
                          entry.pending[k][1] = paragraph[i].t
             IN  new_runs(entry.reference_format,
                          IF entry.stage = "footnotes" THEN "footnoteReference"
                          ELSE "endnoteReference",
                          MaxPositiveId(NotesOf(entry.in, entry.stage)) + k)
        ELSE <<paragraph[i]>>])

\* C2: for footnote and endnote injection alike, each found placeholder's run
\* is removed from its paragraph and the new runs (non-empty prefix, reference,
\* non-empty suffix, each superscript) are inserted at that position as direct
\* children of the paragraph; every other node keeps its content and order.
\* With the template "[#]" the placeholder run becomes the three runs "[",
\* reference, "]".
C2_PlaceholderRunReplaced ==
    \A a \in 1..Len(Applications) :
        LET entry == Applications[a] IN
        entry.stage \in NoteStages =>
            /\ entry.out.document =
                  [p \in 1..Len(entry.in.document) |-> Spliced(entry.in.document[p], entry)]
            /\ entry.reference_format = "[#]" =>
                  LET runs == new_runs("[#]", "footnoteReference", 1)
                  IN  /\ Len(runs) = 3
                      /\ runs[1].t = "[" /\ runs[2].ref # <<>> /\ runs[3].t = "]"
                      /\ \A i \in 1..3 : runs[i].vertAlign = "superscript"

\* C3: a note stage allocates, for each pending note in pending order, the
\* next unused positive id (the greatest positive id + 1, or 1): the part it
\* leaves is the part it found (the two separator entries -1 and 0 when there
\* was none) followed by exactly the N new notes, whose ids follow the
\* greatest prior id; with no prior note they are 1..N; all ids are distinct.
C3_NoteIds ==
    \A a \in 1..Len(Applications) :
        LET entry == Applications[a] IN
        entry.stage \in NoteStages =>
            LET existed == PartOf(entry.stage) \in entry.in.names
                before == IF existed THEN NotesOf(entry.in, entry.stage) ELSE SeparatorNotes
                after == NotesOf(entry.out, entry.stage)
                N == Len(entry.pending)
                base == MaxPositiveId(before)
            IN  /\ PartOf(entry.stage) \in entry.out.names
                /\ Len(after) = Len(before) + N
                /\ SubSeq(after, 1, Len(before)) = before
                /\ ~existed => (before[1].id = -1 /\ before[2].id = 0 /\ base = 0)
                /\ \A k \in 1..N :
                      /\ after[Len(before) + k].id = base + k
                      /\ after[Len(before) + k].text = " " \o entry.pending[k][2]
                /\ \A i, j \in 1..Len(after) : i # j => after[i].id # after[j].id

\* a footnote stage that created the part for two or more pending notes
C3_Witness ==
    \E a \in 1..Len(Applications) :
        /\ Applications[a].stage = "footnotes"
        /\ "word/footnotes.xml" \notin Applications[a].in.names
        /\ Len(Applications[a].pending) >= 2
        /\ Applications[a].out.footnotes[4].id = 2

\* the part is registered exactly once: one relationship element of the
\* relationships part targets it, one Override names it
Registered(package, target, part_name) ==
    /\ Cardinality({i \in 1..Len(package.rels) :
                       /\ package.rels[i].ns = PackageRelationships
                       /\ package.rels[i].Target = target}) = 1
    /\ \A i, j \in 1..Len(package.rels) : i # j => package.rels[i].Id # package.rels[j].Id
    /\ Cardinality({i \in 1..Len(package.overrides) : package.overrides[i] = part_name}) = 1

\* C4: after the footnote stage and after the endnote stage, however often
\* they have been applied, a package that contains the footnotes (endnotes)
\* part has exactly one relationship targeting it, with an Id no other
\* relationship has, and exactly one content-type Override for it.
C4_RegisteredOnce ==
    \A a \in 1..Len(Applications) :
        LET entry == Applications[a] IN
        entry.stage \in NoteStages =>
            /\ "word/footnotes.xml" \in entry.out.names =>
                  Registered(entry.out, "footnotes.xml", "/word/footnotes.xml")
            /\ "word/endnotes.xml" \in entry.out.names =>
                  Registered(entry.out, "endnotes.xml", "/word/endnotes.xml")
            /\ PartOf(entry.stage) \in entry.out.names

\* the fixed order of the stages the claim names, after the draft
StageRank ==
    ("render" :> 0) @@ ("formulas" :> 1) @@ ("footnotes" :> 2) @@ ("endnotes" :> 3) @@
    ("numbering_formats" :> 4) @@ ("numbering" :> 5)

\* the stages of one build run in the fixed order, each on the bytes the
\* previous executed stage produced
StagesChained ==
    /\ \A i \in 1..Len(log) - 1 :
          /\ StageRank[log[i].stage] < StageRank[log[i + 1].stage]
          /\ log[i + 1].in = log[i].out
    /\ (log # <<>> /\ reapplied = <<>>) => processed_bytes = log[Len(log)].out
    /\ log # <<>> => log[1].stage = "render"

\* C5: within one build the stages of Phase 2 run one after the other in the
\* fixed order formula injection, footnote injection, endnote injection,
\* numbering-format application, numbering-definition linking, each on the
\* bytes the previous executed stage produced; in a build that has formula
\* runs, formula injection is the stage Phase 2 begins with.
C5_Original ==
    /\ StagesChained
    /\ (Len(log) >= 2 /\ RunsOfType(data, {"formula"}) # <<>>) =>
          log[2].stage = "formulas"

\* the cached display texts of the REF fields of a paragraph
Displays(paragraph) ==
    LET shown == SelectSeq([i \in 1..Len(paragraph) |->
                               IF i > 1 /\ paragraph[i - 1].fld = "separate"
                               THEN <<paragraph[i].t>> ELSE <<>>],
                           LAMBDA x : x # <<>>)
    IN  [i \in 1..Len(shown) |-> shown[i][1]]

\* the paragraph of the document part built for element p of section s
\* (every section after the first is preceded by one section paragraph)
RenderedParagraph(document, sections_data, s, p) ==
    document[Len(Flatten([k \in 1..(s - 1) |->
                             Append(sections_data[k].elements, SectionBreak)])) + p]

\* C10: for every CrossReference run whose target bookmark id is carried by a
\* paragraph of the same section, before or after the referencing paragraph,
\* the cached display text of the rendered REF field is the flattened text of
\* that paragraph (its plain text, or the concatenation of its text runs).
C10_CrossReferenceDisplayText ==
    (dpc = "done" /\ mcase.family = "xref") =>
        \A s \in 1..Len(data.sections) :
            LET elements == data.sections[s].elements IN
            \A p \in 1..Len(elements) :
                LET refs == SelectSeq(ContentOf(elements[p]),
                                      LAMBDA r : r.type = "cross_reference"
                                                 /\ r.target_bookmark # "")
                    shown == Displays(RenderedParagraph(processed_bytes.document,
                                                        data.sections, s, p))
                IN  /\ Len(shown) = Len(refs)
                    /\ \A k \in 1..Len(refs) : \A q \in 1..Len(elements) :
                          elements[q].bookmark_id = refs[k].target_bookmark
                              => shown[k] = FlattenedText(elements[q])

-----------------------------------------------------------------------------
(* Claims about the numbering stages.                                      *)

\* the style links of definition d whose style exists in the styles part and
\* whose level is among the levels of d
LinkableLinks(styles, d) ==
    SelectSeq(d.style_links,
              LAMBDA link : /\ style_id[link[1]] \in DOMAIN styles
                            /\ \E l \in 1..Len(d.levels) : d.levels[l].level = link[2])

\* the numbering instance numId of the part has an abstract definition with
\* exactly this level entry
InstanceHasLevel(numbering, numId, level) ==
    \E n \in 1..Len(numbering.nums) :
        /\ numbering.nums[n].numId = numId
        /\ \E a \in 1..Len(numbering.abstractNums) :
              /\ numbering.abstractNums[a].abstractNumId = numbering.nums[n].abstractNumId
              /\ \E l \in 1..Len(numbering.abstractNums[a].levels) :
                    numbering.abstractNums[a].levels[l] = level

\* the output of the numbering stage of the build, when it ran
NumberingOutput == log[Len(log)].out
NumberingRan == dpc = "done" /\ log[Len(log)].stage = "numbering"

\* C11: for every NumberingDefinition and every entry (style name -> level L)
\* of its style_links whose style exists in the styles part and whose level L
\* is among the definition's levels, after numbering linking the style holds
\* one numbering reference, with level L and the id of a numbering instance
\* whose abstract definition has a level-L entry with exactly the number
\* format and text-format template that the definition configures for L.
C11_StyleLinkedToItsDefinition ==
    NumberingRan =>
        \A i \in 1..Len(data.numbering_definitions) :
            LET d == data.numbering_definitions[i]
                links == LinkableLinks(NumberingOutput.styles, d)
            IN  \A k \in 1..Len(links) :
                    LET numPr == NumberingOutput.styles[style_id[links[k][1]]] IN
                    /\ numPr # <<>>
                    /\ numPr[1] = links[k][2]
                    /\ \A l \in 1..Len(d.levels) :
                          d.levels[l].level = links[k][2] =>
                              InstanceHasLevel(NumberingOutput.numbering, numPr[2],
                                               d.levels[l])

-----------------------------------------------------------------------------
(* Claims about the element loop.                                          *)

\* what an element with something to show has to leave in the body, as the
\* kinds of the body children in order (a list leaves one child per item, a
\* toc with a title two; headers, footers and column breaks leave no child of
\* their own)
ExpectedKinds(element) ==
    CASE element.type \in {"paragraph", "formula", "page_break"} -> <<element.type>>
      [] element.type = "list" -> [i \in 1..Len(element.content) |-> "list"]
      [] element.type = "table" -> IF element.content # <<>> THEN <<"table">> ELSE <<>>
      [] element.type = "image" ->
            \* a file that cannot be read leaves the empty paragraph made for it
            IF element.text \in ExistingFiles THEN <<"image">>
            ELSE IF element.text # "" THEN <<"paragraph">>
            ELSE <<>>
      [] element.type = "toc" ->
            IF element.text # "" THEN <<"toc_title", "toc">> ELSE <<"toc">>
      [] OTHER -> <<>>

\* the kind of a child of the body, read off what it holds
KindOfChild(child) ==
    IF child = <<>> THEN "paragraph"
    ELSE CASE child[1].tag = "tbl" -> "table"
           [] child[1].tag = "pPr" /\ child[1].name = "List Bullet" -> "list"
           [] child[1].tag = "pPr" /\ child[1].name = "Heading 1" -> "toc_title"
           [] child[1].tag = "drawing" -> "image"
           [] child[1].tag = "br" /\ child[1].t = "page" -> "page_break"
           [] child[1].tag = "br" /\ child[1].t = "column" -> "column_break"
           [] child[1].tag = "oMath" -> "formula"
           [] child[1].fld = "TOC" -> "toc"
           [] OTHER -> "paragraph"

\* the children of the body that are not a paragraph made for a column break
BodyKinds(body) ==
    SelectSeq([i \in 1..Len(body) |-> KindOfChild(body[i])],
              LAMBDA k : k # "column_break")

ColumnBreaks(body) ==
    Cardinality({<<i, j>> \in UNION {{<<i, j>> : j \in 1..Len(body[i])} : i \in 1..Len(body)} :
                    body[i][j].tag = "br" /\ body[i][j].t = "column"})

\* C12: create_document renders every element of every section, in IR order,
\* for every kind of the tagged union: the children of the body of the draft
\* are, in order, what the elements of the IR leave (a block-level formula
\* element included), every column break is in the body, and the last header
\* and the last footer of the IR are the header and the footer of the draft.
C12_EveryElementRendered ==
    dpc \notin {"idle", "render"} =>
        LET elements == ElementsOf(data)
            draft == log[1].out
        IN  /\ BodyKinds(draft.document)
                  = Flatten([i \in 1..Len(elements) |-> ExpectedKinds(elements[i])])
            /\ ColumnBreaks(draft.document)
                  = Cardinality({i \in 1..Len(elements) : elements[i].type = "column_break"})
            /\ \A kind \in {"header", "footer"} :
                  LET written == {i \in 1..Len(elements) : elements[i].type = kind} IN
                  written # {} =>
                      /\ "word/" \o kind \o "1.xml" \in draft.names
                      /\ draft.parts["word/" \o kind \o "1.xml"]
                            = HeaderFooterRuns(elements[Max(written)].text)

(***************************************************************************)
(* Failures of the stages                                                  *)
(***************************************************************************)
\* the parts a stage works on
StageParts(stage) ==
    CASE stage = "footnotes" ->
            {"word/document.xml", "word/footnotes.xml", "word/_rels/document.xml.rels",
             "[Content_Types].xml"}
      [] stage = "endnotes" ->
            {"word/document.xml", "word/endnotes.xml", "word/_rels/document.xml.rels",
             "[Content_Types].xml"}
      [] stage = "numbering_formats" -> {"word/settings.xml"}
      [] stage = "numbering" -> {"word/numbering.xml", "word/styles.xml"}
      [] OTHER -> {}

\* the parts of a stage that the stage cannot make itself
RequiredParts(stage) == StageParts(stage) \ {"word/footnotes.xml", "word/endnotes.xml"}

\* the stage was given bytes it can work on
Workable(stage, package) ==
    /\ package.zip
    /\ RequiredParts(stage) \subseteq package.names
    /\ StageParts(stage) \cap package.malformed = {}

\* C13: a stage that cannot do its work (the bytes are no zip archive, a
\* required part is missing, a part of the stage is not well-formed XML) makes
\* create_document fail: every stage that has run and returned was given bytes
\* it could work on.
C13_StageFailureSurfaced ==
    \A i \in 2..Len(log) : Workable(log[i].stage, log[i].in)


(***************************************************************************)
(* Frame of the stages                                                     *)
(***************************************************************************)
\* the content of an entry of the package
EntryOf(package, name) ==
    CASE name = "word/document.xml" -> <<"document", package.document>>
      [] name = "word/footnotes.xml" -> <<"notes", package.footnotes>>
      [] name = "word/endnotes.xml" -> <<"notes", package.endnotes>>
      [] name = "word/_rels/document.xml.rels" -> <<"rels", package.rels>>
      [] name = "[Content_Types].xml" -> <<"types", package.overrides>>
      [] name = "word/settings.xml" -> <<"settings", package.settings>>
      [] name = "word/numbering.xml" -> <<"numbering", package.numbering>>
      [] name = "word/styles.xml" -> <<"styles", package.styles>>
      [] OTHER -> <<"part", package.parts[name]>>

\* the entry is in both packages, with the same content
SameEntry(in, out, name) ==
    /\ name \in out.names
    /\ EntryOf(out, name) = EntryOf(in, name)
    /\ (name \in out.malformed) = (name \in in.malformed)

\* C14: a stage changes only the parts it is responsible for (footnote stage:
\* document, footnotes, relationships, content types; endnote stage: document,
\* endnotes, relationships, content types; numbering-format stage: settings;
\* numbering stage: numbering, styles): every other entry of the package it was
\* given is in the package it returns, under the same name and with the same
\* content, and no entry of its input is missing from its output.
C14_StageFrame ==
    \A a \in 2..Len(Applications) :
        LET in == Applications[a].in
            out == Applications[a].out
        IN  /\ in.names \subseteq out.names
            /\ out.names \subseteq in.names \cup StageParts(Applications[a].stage)
            /\ \A name \in in.names \ StageParts(Applications[a].stage) :
                    SameEntry(in, out, name)

\* the four stages have run on a package that has a header part, and each has
\* changed its parts
C14_Witness ==
    /\ dpc = "done"
    /\ {log[i].stage : i \in 2..Len(log)} = StageNames
    /\ \A i \in 2..Len(log) :
          /\ "word/header1.xml" \in log[i].in.names
          /\ log[i].out # log[i].in


(***************************************************************************)
(* Bookmark ids of concurrent builds                                       *)
(***************************************************************************)
\* C15: under any interleaving of two builds, no two bookmarks of one output
\* document have the same id, and the start marker and the end marker of a
\* bookmark carry the same id.
C15_BookmarkIdsPerBuild ==
    \A t \in DOMAIN threads :
        LET marks == threads[t].marks
        IN  /\ \A i \in 1..Len(marks) : marks[i].start = marks[i].end
            /\ \A i, j \in 1..Len(marks) :
                  i # j => /\ marks[i].start # marks[j].start
                           /\ marks[i].end # marks[j].end


(***************************************************************************)
(* Repeated compiles                                                       *)
(***************************************************************************)
\* C16: two calls of latex_to_omml with the same math string and the same
\* alignment return identical fragments, whatever other calls were made
\* before, between, after or during them: what a call returns is what the
\* compiler makes of the arguments of that call alone.
C16_CompileIsRepeatable ==
    \A i, j \in 1..Len(compiled) :
        (compiled[i].pc = "returned" /\ compiled[j].pc = "returned") =>
            /\ compiled[i].omml = latex_to_omml(compiled[i].latex, compiled[i].alignment)
            /\ (compiled[i].latex = compiled[j].latex
                    /\ compiled[i].alignment = compiled[j].alignment)
                  => compiled[i].omml = compiled[j].omml

\* a string was compiled to a fragment twice, the first time while a call for
\* another string was under way, the second time alone
C16_Witness ==
    /\ Len(compiled) = 3
    /\ \A c \in 1..3 : compiled[c].pc = "returned" /\ compiled[c].omml # NoneResult
    /\ compiled[1].latex = compiled[3].latex
    /\ compiled[1].alignment = compiled[3].alignment
    /\ compiled[2].latex # compiled[1].latex
    /\ compiled[1].overlapped /\ compiled[2].overlapped /\ ~compiled[3].overlapped
    /\ Len(compiled[1].elements) = 3


(***************************************************************************)
(* Pending placeholders without a location                                 *)
(***************************************************************************)
\* the positions of the pending notes whose placeholder is the text of a run
\* of the document
Located(document, pending) ==
    {k \in 1..Len(pending) :
        \E i \in 1..Len(TopNodes(document)) : TopNodes(document)[i].t = pending[k][1]}

RefTag(stage) == IF stage = "footnotes" THEN "footnoteReference" ELSE "endnoteReference"

\* the reference marks of the document that point at the note
References(document, stage, note_id) ==
    {i \in 1..Len(DeepNodes(document)) : DeepNodes(document)[i].ref = <<RefTag(stage), note_id>>}

\* the paragraph holds one of the placeholders
Holds(paragraph, placeholders) ==
    \E i \in 1..Len(paragraph) : paragraph[i].t \in placeholders

\* C17: when a pending footnote or endnote placeholder has no location in the
\* document, the stage does not abort, puts no reference mark for it into the
\* document and leaves every paragraph that holds no located placeholder as
\* it was; every other pending placeholder is resolved: its placeholder is
\* gone and the document has one more reference mark, to its note.
C17_MissingPlaceholderSkipped ==
    \A a \in 2..Len(Applications) :
        Applications[a].stage \in NoteStages =>
            LET stage == Applications[a].stage
                in == Applications[a].in
                out == Applications[a].out
                pending == Applications[a].pending
                located == Located(in.document, pending)
                first_id == MaxPositiveId(IF PartOf(stage) \in in.names
                                          THEN NotesOf(in, stage) ELSE <<>>)
            IN  /\ Len(out.document) = Len(in.document)
                /\ \A k \in 1..Len(pending) \ located :
                      Cardinality(References(out.document, stage, first_id + k))
                          = Cardinality(References(in.document, stage, first_id + k))
                /\ \A k \in located :
                      /\ Cardinality(References(out.document, stage, first_id + k))
                            = Cardinality(References(in.document, stage, first_id + k)) + 1
                      /\ \A i \in 1..Len(DeepNodes(out.document)) :
                            DeepNodes(out.document)[i].t # pending[k][1]
                /\ \A p \in 1..Len(in.document) :
                      ~Holds(in.document[p], {pending[k][1] : k \in located})
                          => out.document[p] = in.document[p]

\* a note stage has returned from a document that had a location for one
\* pending placeholder and none for another, and the build went on to its end
C17_Witness ==
    /\ dpc = "done"
    /\ \E a \in 2..Len(log) :
          /\ log[a].stage \in NoteStages
          /\ Located(log[a].in.document, log[a].pending) # {}
          /\ Located(log[a].in.document, log[a].pending) # 1..Len(log[a].pending)


(***************************************************************************)
(* Style links to styles that do not exist                                 *)
(***************************************************************************)
\* every style link of the definitions, in the order the stage goes through
\* them
AllStyleLinks(definitions) ==
    Flatten([i \in 1..Len(definitions) |-> definitions[i].style_links])

\* the ids of the numbering instances the stage added
NewNumIds(in, out) ==
    {out.numbering.nums[n].numId : n \in 1..Len(out.numbering.nums)}
    \ {in.numbering.nums[n].numId : n \in 1..Len(in.numbering.nums)}

\* C18: a style link whose style is not in the styles part is skipped and
\* nothing else: the stage returns, it adds no style of that name, and every
\* link to a style that exists is applied: the style holds the level of the
\* last link that names it and the id of an instance the stage made; a style
\* that no link names is as it was.
C18_MissingStyleSkipped ==
    \A a \in 2..Len(log) :
        log[a].stage = "numbering" =>
            LET in == log[a].in
                out == log[a].out
                links == AllStyleLinks(data.numbering_definitions)
            IN  /\ DOMAIN out.styles = DOMAIN in.styles
                /\ \A sid \in DOMAIN in.styles :
                      LET named == {k \in 1..Len(links) : style_id[links[k][1]] = sid}
                      IN  IF named = {} THEN out.styles[sid] = in.styles[sid]
                          ELSE /\ out.styles[sid] # <<>>
                               /\ out.styles[sid][1] = links[Max(named)][2]
                               /\ out.styles[sid][2] \in NewNumIds(in, out)

\* the numbering stage has returned for definitions in which a link to a
\* style that does not exist comes before a link to a style that exists, in
\* the same definition and in a later one
C18_Witness ==
    /\ NumberingRan
    /\ Len(data.numbering_definitions) = 2
    /\ LET first == data.numbering_definitions[1].style_links
           second == data.numbering_definitions[2].style_links
       IN  /\ Len(first) = 2
           /\ style_id[first[1][1]] \notin DOMAIN NumberingOutput.styles
           /\ style_id[first[2][1]] \in DOMAIN NumberingOutput.styles
           /\ style_id[second[1][1]] \in DOMAIN NumberingOutput.styles


(***************************************************************************)
(* Braced arguments                                                        *)
(***************************************************************************)
\* what the command makes of the elements of its braced argument
BuiltFrom(command, els) ==
    CASE command = "\\sqrt" -> _create_sqrt_omml(els)
      [] command = "\\hat" -> _create_accent_omml(els, "^")
      [] command = "\\frac" -> _create_fraction_omml(els, <<_create_run_omml("b", FALSE)>>)
      [] OTHER -> _create_superscript_omml(<<_create_run_omml("x", FALSE)>>, els)

\* C19: for balanced braces, the {...} argument of a structural command is
\* compiled from exactly the tokens between its braces, whatever commands they
\* contain (n-ary operators, functions, \left...\right), and the cursor ends
\* right after the matching '}': the fragment is what the command builds from
\* the elements of the body compiled on its own, followed by the elements of
\* the tail compiled on its own.
C19_BracedArgument ==
    mpc = "compiled" =>
        LET body == _parse_tokens(mcase.body, 1, {})
            tail == _parse_tokens(mcase.tail, 1, {})
        IN  (~body.err /\ ~tail.err) =>
                omml = OMathPara("center", <<BuiltFrom(mcase.command, body.els)>> \o tail.els)


(***************************************************************************)
(* Content tokens                                                          *)
(***************************************************************************)
\* the texts of the runs of a fragment, in document order
RECURSIVE RunTexts(_)
RunTexts(elements) ==
    Flatten([i \in 1..Len(elements) |->
                IF elements[i].tag = "r" THEN <<elements[i].val[1]>>
                ELSE Flatten([k \in 1..Len(elements[i].slots) |->
                                 RunTexts(elements[i].slots[k])])])

\* the alphanumeric atom tokens of the inputs
AtomTokens == TextWords \cup {"x", "y"}

Occurrences(seq, value) == Cardinality({i \in 1..Len(seq) : seq[i] = value})

\* C20: whenever latex_to_omml returns a fragment, no content token has been
\* dropped: every alphanumeric atom token of the input appears in the
\* fragment, the atoms inside \text{...} included; \text{...} consumes exactly
\* the tokens up to its matching brace, so no brace is left as a literal and
\* the tail is compiled as on its own.
C20_NoContentTokenDropped ==
    (mpc = "compiled" /\ omml.kind = "oMathPara") =>
        LET texts == RunTexts(omml.oMath)
            tail == _parse_tokens(mcase.tail, 1, {})
        IN  /\ \A atom \in AtomTokens :
                  Occurrences(texts, atom) >= Occurrences(latex, atom)
            /\ Occurrences(texts, "}") = 0
            /\ Len(omml.oMath) >= Len(tail.els)
            /\ SubSeq(omml.oMath, Len(omml.oMath) - Len(tail.els) + 1, Len(omml.oMath))
                  = tail.els


(***************************************************************************)
(* The tokens of a string                                                  *)
(***************************************************************************)
\* the token is a command: a \begin{...} or \end{...} marker, a backslash with
\* letters and an optional '*', or a backslash with one character that is no
\* whitespace
IsCommand(token) ==
    /\ Len(token) >= 2
    /\ token[1] = "\\"
    /\ \/ MarkerEnd(token, 1, <<"b", "e", "g", "i", "n">>) = Len(token) + 1
       \/ MarkerEnd(token, 1, <<"e", "n", "d">>) = Len(token) + 1
       \/ RunEnd(token, 2, Letters) = Len(token) + 1
       \/ RunEnd(token, 2, Letters) = Len(token) /\ Len(token) > 2 /\ token[Len(token)] = "*"
       \/ Len(token) = 2 /\ token[2] \notin Whitespace

IsAlnumRun(token) ==
    token # <<>> /\ \A k \in 1..Len(token) : token[k] \in Letters \cup Digits

\* the characters of the string that are no whitespace
Stripped(string) == SelectSeq(string, LAMBDA char : char \notin Whitespace)

\* the alphanumeric tokens that are next to each other in the string (no
\* character, not even a blank, between them)
AdjacentRuns(string, tokens) ==
    {k \in 1..Len(tokens) - 1 :
        /\ IsAlnumRun(tokens[k])
        /\ IsAlnumRun(tokens[k + 1])
        /\ \E i \in 1..Len(string) :
              StartsWith(string, i, tokens[k] \o tokens[k + 1])}

\* C21: tokenize loses no character: the tokens, put together in order, are
\* the string without its whitespace; no token is whitespace; and every token
\* is a command, one structural character, a maximal alphanumeric run or one
\* other single character.
C21_TokenizeLosesNothing ==
    mpc = "input" =>
        LET tokens == tokenize(mcase.string)
        IN  /\ latex = [k \in 1..Len(tokens) |-> ConcatStrings(tokens[k])]
            /\ Flatten(tokens) = Stripped(mcase.string)
            /\ \A k \in 1..Len(tokens) :
                  /\ ~isspace(tokens[k])
                  /\ \/ IsCommand(tokens[k])
                     \/ IsAlnumRun(tokens[k])
                     \/ Len(tokens[k]) = 1
            /\ AdjacentRuns(mcase.string, tokens) = {}

\* a string with a marker, a lone backslash, whitespace and other characters
\* has been tokenized
C21_Witness ==
    /\ mpc = "input"
    /\ mcase.string = <<"\\", "b", "e", "g", "i", "n", "{", "a", "*", "}", "\\">>
    /\ latex = <<"\\begin{a*}", "\\">>

-----------------------------------------------------------------------------
(* Claims about the ids of the numbering definitions.                      *)

\* numbering parts a template can hold: none, one or several definitions, ids
\* neither contiguous nor in order
NumberingParts ==
    {[abstractNums |-> [i \in 1..Len(a) |-> [abstractNumId |-> a[i], levels |-> <<>>]],
      nums |-> [i \in 1..Len(n) |-> [numId |-> n[i], abstractNumId |-> a[1]]]] :
        <<a, n>> \in {<<<<0>>, <<>>>>, <<<<0>>, <<1>>>>, <<<<5, 2>>, <<3, 7, 4>>>>,
                      <<<<1, 4>>, <<9>>>>}}
    \cup {[abstractNums |-> <<>>, nums |-> <<>>]}

\* out is part in with one abstract definition and one instance appended per
\* definition, in the order of the definitions; every new id is above every id
\* of its kind in the part, new ids of a kind differ from each other, and the
\* i-th new instance names the i-th new abstract definition, which holds the
\* levels of the i-th definition
FreshIds(in, out, definitions) ==
    LET na == Len(in.abstractNums)
        nn == Len(in.nums)
        k == Len(definitions)
    IN  /\ Len(out.abstractNums) = na + k
        /\ Len(out.nums) = nn + k
        /\ SubSeq(out.abstractNums, 1, na) = in.abstractNums
        /\ SubSeq(out.nums, 1, nn) = in.nums
        /\ \A i \in 1..k :
              /\ \A j \in 1..na :
                    out.abstractNums[na + i].abstractNumId > in.abstractNums[j].abstractNumId
              /\ \A j \in 1..nn : out.nums[nn + i].numId > in.nums[j].numId
              /\ \A j \in 1..k :
                    j # i => /\ out.abstractNums[na + i].abstractNumId
                                 # out.abstractNums[na + j].abstractNumId
                             /\ out.nums[nn + i].numId # out.nums[nn + j].numId
              /\ out.nums[nn + i].abstractNumId = out.abstractNums[na + i].abstractNumId
              /\ out.abstractNums[na + i].levels = definitions[i].levels

\* C22: every abstract-numbering id and every instance id created by
\* create_numbering_definitions is strictly greater than every pre-existing id
\* of its kind, the ids created for different definitions are pairwise
\* distinct, and each new instance references the abstract definition created
\* for the same NumberingDefinition: for the numbering stage of the build, and
\* for the definitions of the build applied to every numbering part above.
C22_NewIdsAreFresh ==
    NumberingRan =>
        /\ FreshIds(log[Len(log)].in.numbering, NumberingOutput.numbering,
                    data.numbering_definitions)
        /\ \A part \in NumberingParts :
              FreshIds(part,
                       create_numbering_definitions(part, data.numbering_definitions).numbering,
                       data.numbering_definitions)

C22_Witness ==
    /\ NumberingRan
    /\ Len(data.numbering_definitions) = 2
    /\ data.numbering_definitions[1].name = data.numbering_definitions[2].name
    /\ [i \in 1..3 |-> NumberingOutput.numbering.nums[i].numId] = <<1, 2, 3>>
    /\ [i \in 1..3 |-> NumberingOutput.numbering.abstractNums[i].abstractNumId] = <<0, 1, 2>>

-----------------------------------------------------------------------------
(* Claims about the scope of the bookmark map.                             *)

\* the sections with a paragraph that carries the bookmark a reference to
\* target names (the name of a bookmark is its id without surrounding spaces)
CarrierSections(sections_data, target) ==
    {s \in 1..Len(sections_data) :
        \E q \in 1..Len(sections_data[s].elements) :
            /\ sections_data[s].elements[q].bookmark_id # None
            /\ strip[sections_data[s].elements[q].bookmark_id] = strip[target]}

\* the instruction texts of the REF fields of a paragraph
Instructions(paragraph) ==
    LET instr == SelectSeq(paragraph, LAMBDA r : r.fld = "instrText")
    IN  [i \in 1..Len(instr) |-> instr[i].t]

\* the cross-references of element p of section s whose bookmark is carried in
\* another section (before or after s) and not in s
ForeignRefs(sections_data, s, p) ==
    {k \in 1..Len(SelectSeq(ContentOf(sections_data[s].elements[p]),
                            LAMBDA r : r.type = "cross_reference")) :
        LET target == SelectSeq(ContentOf(sections_data[s].elements[p]),
                                LAMBDA r : r.type = "cross_reference")[k].target_bookmark
        IN  /\ CarrierSections(sections_data, target) # {}
            /\ s \notin CarrierSections(sections_data, target)}

\* C23: the bookmark map is rebuilt from scratch for every section: a
\* CrossReference whose target bookmark is carried only by a paragraph of a
\* different section, earlier or later, is rendered as a REF field naming the
\* target whose display text is the 'not found' string, never the text of the
\* paragraph of the other section.
C23_BookmarkMapPerSection ==
    (dpc = "done" /\ mcase.family = "xref") =>
        \A s \in 1..Len(data.sections) : \A p \in 1..Len(data.sections[s].elements) :
            LET refs == SelectSeq(ContentOf(data.sections[s].elements[p]),
                                  LAMBDA r : r.type = "cross_reference")
                rendered == RenderedParagraph(processed_bytes.document, data.sections, s, p)
            IN  \A k \in ForeignRefs(data.sections, s, p) :
                    /\ Len(Displays(rendered)) = Len(refs)
                    /\ Instructions(rendered)[k]
                           = " REF " \o strip[refs[k].target_bookmark] \o " \\h "
                    /\ Displays(rendered)[k] = NotFoundText(strip[refs[k].target_bookmark])
                    /\ \A t \in 1..Len(data.sections) :
                          \A q \in 1..Len(data.sections[t].elements) :
                              t # s => Displays(rendered)[k]
                                          # FlattenedText(data.sections[t].elements[q])

\* a reference in the first section to a bookmark of the second
C23_Witness ==
    /\ dpc = "done"
    /\ mcase.family = "xref"
    /\ Len(data.sections) = 2
    /\ Len(data.sections[1].elements) = 1
    /\ Len(data.sections[2].elements) = 1
    /\ ForeignRefs(data.sections, 1, 1) = {1}
    /\ data.sections[2].elements[1].bookmark_id = "b"
    /\ Displays(processed_bytes.document[1]) = <<NotFoundText("b")>>

-----------------------------------------------------------------------------
(* Claims about formula runs that cannot be compiled.                      *)

\* what a run item of a paragraph has to leave in the paragraph
ExpectedRun(run_item) ==
    CASE run_item.type = "text" -> <<<<"text", <<run_item.text>>>>>>
      [] run_item.type \in {"footnote", "endnote"} -> <<<<"note", <<run_item.text>>>>>>
      [] run_item.type = "formula" ->
            LET omml_element == latex_to_omml(FormulaTokens[run_item.text], "center")
            IN  IF omml_element.kind = "oMathPara"
                THEN <<<<"formula", omml_element.oMath>>>>
                ELSE <<<<"error", <<"[formula failed: " \o run_item.text \o "]">>>>>>
      [] OTHER -> <<>>

\* what a node of a paragraph of the draft is: a formula, a red run, the
\* placeholder of a pending note (with the text of the note), a text run
ShapeOf(node, pending) ==
    IF node.tag = "oMath" THEN <<"formula", node.math>>
    ELSE IF node.color = "FF0000" THEN <<"error", <<node.t>>>>
    ELSE IF \E k \in 1..Len(pending) : pending[k][1] = node.t
    THEN <<"note", <<pending[CHOOSE k \in 1..Len(pending) : pending[k][1] = node.t][2]>>>>
    ELSE <<"text", <<node.t>>>>

\* the nodes of a paragraph that show something: all but the runs without
\* text (a paragraph whose items leave no run is given an empty one)
ShownNodes(nodes) == SelectSeq(nodes, LAMBDA node : node.tag # "r" \/ node.t # "")

\* C24: a Formula run whose markup cannot be compiled never aborts the build
\* and removes no other content: the draft has one child per element of the
\* IR, in IR order, and what every paragraph shows is, in the order of its run
\* items, what each item leaves; for a formula that does not compile that is
\* one run in red that quotes the markup, at the position of the formula.
C24_FailedFormulaIsMarked ==
    (dpc \notin {"idle", "render"} /\ mcase.family = "formulas") =>
        LET elements == ElementsOf(data)
            draft == log[1].out.document
        IN  /\ Len(draft) = Len(elements)
            /\ \A p \in 1..Len(elements) :
                  IF elements[p].type = "paragraph" /\ elements[p].content # <<>>
                  THEN [i \in 1..Len(ShownNodes(draft[p])) |->
                           ShapeOf(ShownNodes(draft[p])[i],
                                   footnotes_to_inject \o endnotes_to_inject)]
                          = Flatten([i \in 1..Len(elements[p].content) |->
                                        ExpectedRun(elements[p].content[i])])
                  ELSE IF elements[p].type = "paragraph"
                  THEN draft[p] = <<TextRun(elements[p].text)>>
                  ELSE KindOfChild(draft[p]) = elements[p].type

-----------------------------------------------------------------------------
(* Claims about notes and their references.                                *)

\* every reference mark of the stage's kind in the document
AllReferences(document, stage) ==
    {i \in 1..Len(DeepNodes(document)) :
        /\ DeepNodes(document)[i].ref # <<>>
        /\ DeepNodes(document)[i].ref[1] = RefTag(stage)}

\* the positive ids of the notes of the package
PositiveIds(package, stage) ==
    IF PartOf(stage) \in package.names
    THEN {NotesOf(package, stage)[i].id :
             i \in {j \in 1..Len(NotesOf(package, stage)) : NotesOf(package, stage)[j].id > 0}}
    ELSE {}

\* C25: after the footnote stage (resp. the endnote stage), for any set of
\* pending placeholders, found in the document or not, the notes with a
\* positive id and the note references of the document are one-to-one: every
\* such note is referenced by exactly one reference mark, and every reference
\* mark names such a note.
C25_NotesAndReferencesOneToOne ==
    \A a \in 2..Len(log) :
        log[a].stage \in NoteStages =>
            LET stage == log[a].stage
                out == log[a].out
            IN  /\ \A n \in PositiveIds(out, stage) :
                      Cardinality(References(out.document, stage, n)) = 1
                /\ \A i \in AllReferences(out.document, stage) :
                      DeepNodes(out.document)[i].ref[2] \in PositiveIds(out, stage)

-----------------------------------------------------------------------------
(* Claims about the cursor of the parser.                                  *)

\* the stop-token lists the parser functions pass to _parse_tokens
StopTokenSets ==
    {{}, {"}"}, {")"}, {"\\right"}, BOUNDARY_TOKENS}
    \cup {{"&", "\\\\", EndToken(BeginEnv[b])} : b \in DOMAIN BeginEnv}

\* the cursor a call entered at pos ends at is not before pos nor beyond the
\* end of the token list
CursorKept(tokens, pos, result) == result.pos >= pos /\ result.pos <= Len(tokens) + 1

\* every call of a parser function that can be made with the cursor at pos
CallsKeepCursor(tokens, pos) ==
    /\ \A stop_tokens \in StopTokenSets :
          CursorKept(tokens, pos, _parse_tokens(tokens, pos, stop_tokens))
    /\ CursorKept(tokens, pos, _parse_single_element(tokens, pos))
    /\ CursorKept(tokens, pos, _parse_atomic_expression(tokens, pos))
    /\ CursorKept(tokens, pos, _parse_argument(tokens, pos))
    /\ \A b \in DOMAIN BeginEnv :
          CursorKept(tokens, pos, _parse_matrix_environment(tokens, pos, BeginEnv[b]))
    /\ current_token(tokens, pos) \in {"^", "_"}
          => CursorKept(tokens, pos, _handle_scripts(tokens, pos, <<>>))

\* one iteration of the loop of _parse_matrix_environment entered with the
\* cursor at pos: it raises, breaks, moves the cursor forward, or leaves no
\* token for the next test of the loop condition
MatrixIterationEnds(tokens, pos, stop_token) ==
    LET cell == _parse_tokens(tokens, pos, {"&", "\\\\", stop_token})
        token == current_token(tokens, cell.pos)
    IN  \/ cell.err
        \/ token = stop_token
        \/ token \in {"&", "\\\\"} /\ advance(tokens, cell.pos) > pos
        \/ token \notin {"&", "\\\\"} /\ (cell.pos > pos \/ ~has_tokens(tokens, cell.pos))

\* C26: latex_to_omml terminates on every finite input: with the cursor
\* anywhere in the token list, no call of a parser function moves it backwards
\* or beyond the end of the list, every iteration of the loop of _parse_tokens
\* consumes at least one token or leaves the loop, and so does every iteration
\* of the loop of _parse_matrix_environment.
C26_CursorOnlyAdvances ==
    \A pos \in 1..(Len(latex) + 1) :
        /\ advance(latex, pos) \in {pos, pos + 1}
        /\ advance(latex, pos) <= Len(latex) + 1
        /\ CallsKeepCursor(latex, pos)
        /\ has_tokens(latex, pos) =>
              /\ \/ TokensIteration(latex, pos).err
                 \/ TokensIteration(latex, pos).pos > pos
              /\ \A b \in DOMAIN BeginEnv :
                    latex[pos] # EndToken(BeginEnv[b])
                        => MatrixIterationEnds(latex, pos, EndToken(BeginEnv[b]))

\* a matrix that is never ended, with an empty cell, compiled
C26_Witness ==
    /\ mpc = "compiled"
    /\ latex = <<"\\begin{pmatrix}", "&", "\\\\">>
    /\ omml.kind = "oMathPara"
    /\ _parse_matrix_environment(latex, 2, "pmatrix").pos = 4

-----------------------------------------------------------------------------
(* Claims about the correction workflow.                                   *)

\* C27: the correction workflow always reaches END: a run that stops has
\* stopped at END, never by an exception that leaves the graph; the corrector
\* is entered at most twice per run, and once the corrector has failed to
\* generate a fix the persisting error leads to END, not to the corrector
\* again.
C27_WorkflowReachesEND ==
    /\ agent.node # "raised"
    /\ \A r \in 1..Len(agent.finished) : agent.finished[r].ended = "END"
    /\ agent.corrector_entries <= 2
    /\ agent.fix_failed => agent.node # "corrector"


-----------------------------------------------------------------------------
(* Claims about the instance a linked style references.                    *)

\* the style names that the style_links of a definition name
LinkedStyles(d) == {d.style_links[k][1] : k \in 1..Len(d.style_links)}

\* no style is named by the style_links of two definitions of the list
DisjointStyleLinks(definitions) ==
    \A i, j \in 1..Len(definitions) :
        i # j => LinkedStyles(definitions[i]) \cap LinkedStyles(definitions[j]) = {}

\* the id of the numbering instance that the stage created for the i-th
\* definition: the stage appends one w:num per definition, in order
InstanceCreatedFor(numbering, definitions, i) ==
    numbering.nums[Len(numbering.nums) - Len(definitions) + i].numId

\* C28: for any list of NumberingDefinitions with pairwise disjoint
\* style_links, definitions that share a name included, every linked style
\* that exists in the styles part references the numbering instance created
\* for the definition that names it, never the instance of another one.
C28_StyleReferencesItsOwnInstance ==
    (NumberingRan /\ DisjointStyleLinks(data.numbering_definitions)) =>
        \A i \in 1..Len(data.numbering_definitions) :
            LET d == data.numbering_definitions[i] IN
            \A k \in 1..Len(d.style_links) :
                style_id[d.style_links[k][1]] \in DOMAIN NumberingOutput.styles =>
                    LET numPr == NumberingOutput.styles[style_id[d.style_links[k][1]]] IN
                    /\ numPr # <<>>
                    /\ numPr[2] = InstanceCreatedFor(NumberingOutput.numbering,
                                                     data.numbering_definitions, i)


-----------------------------------------------------------------------------
(* Claims about the bounds of an n-ary operator.                           *)

\* the n-ary node of the case: the operator's character, the compiled lower
\* and upper bound, and the body up to the boundary token
NaryNode(c) ==
    _create_nary_omml(NARY_OPERATORS[c.op], ArgEls(c.sub), ArgEls(c.sup),
                      _parse_tokens(c.body, 1, BOUNDARY_TOKENS).els)

\* C29: an n-ary operator accepts its bounds in either order: for every
\* operator of the n-ary table and non-empty arguments a and b, OP_a^b and
\* OP^b_a compile to the same n-ary node, with sub = a, sup = b and the same
\* body (the tokens up to the next boundary token).
C29_NaryBoundsInEitherOrder ==
    (mpc = "compiled" /\ mcase.family = "nary"
        /\ NonEmptyArg(mcase.sub) /\ NonEmptyArg(mcase.sup)) =>
        /\ omml = latex_to_omml(NaryTokens([mcase EXCEPT !.first = "_"]), "center")
        /\ omml.kind = "oMathPara"
        /\ omml.oMath # <<>>
        /\ omml.oMath[1] = NaryNode(mcase)


-----------------------------------------------------------------------------
(* Claims about the temporary workspace of a stage.                        *)

\* the invocations of the build so far that extracted the package: the stages
\* that returned, the further applications, and the invocation that raised
ExtractingInvocations ==
    (IF log = <<>> THEN 0 ELSE Len(log) - 1) + Len(reapplied)
        + (IF dpc = "raised" THEN 1 ELSE 0)

\* C30: every Phase 2 stage invocation that extracts the package creates its
\* own fresh temporary workspace and has removed it when the invocation ends,
\* on every exit path (return, early return because a part is missing,
\* exception): after any sequence of successful and failed invocations no
\* workspace created by a finished invocation exists, and what existed before
\* is still there.
C30_WorkspaceRemovedOnEveryExit ==
    /\ temp_dirs.existing = NoWorkspaces.existing
    /\ Len(temp_dirs.made) = ExtractingInvocations
    /\ \A i \in 1..Len(temp_dirs.made) :
          /\ temp_dirs.made[i].dir \notin NoWorkspaces.existing
          /\ temp_dirs.made[i].dir \notin temp_dirs.existing

\* the footnote stage returned and a later stage raised
C30_Witness ==
    /\ dpc = "raised"
    /\ Len(temp_dirs.made) >= 2
    /\ temp_dirs.made[1].exit = "return"
    /\ temp_dirs.made[Len(temp_dirs.made)].exit = "raise"

====
